---------------------------- MODULE Spec2Model ----------------------------
(***************************************************************************)
(* Model of src/main.py (chunky-timelapse): the batch render queue of      *)
(* ChunkyTimelapseApp, the external render process it supervises, the      *)
(* monitor thread that waits for the process, and the snapshot directory   *)
(* the rename step works on.                                               *)
(*                                                                         *)
(* Text (world names, scene names, directories, file names) is a sequence  *)
(* of one-character strings, so that path joining, separator               *)
(* normalisation, glob and regular-expression matching are computed.       *)
(***************************************************************************)
EXTENDS Integers, Sequences, FiniteSets, TLC

(***************************************************************************)
(* Bounds of the model.                                                    *)
(***************************************************************************)
\* worlds enqueued by all accepted start_render_queue calls of one behaviour
MaxJobs == 3
\* changes of scene / world directory / world scan made after a batch began
MaxEdits == 0

(***************************************************************************)
(* Text values.                                                            *)
(***************************************************************************)
NoText == << >>
\* world directory names found under the parent directory
WorldA == <<"a", "-", "2", "5", "0", "1", "0", "3">>
WorldB == <<"b", "-", "2", "5", "0", "1", "0", "1">>
WorldX == <<"x">>
Worlds == {WorldA, WorldB, WorldX}
\* scene names offered by the scene combo box
SceneS == <<"s">>
Scenes == {SceneS}
\* the parent directory the user can browse to, and os.sep of its platform
DirW == <<"c", "\\", "w">>
Dirs == {DirW}
OsSep == "\\"
\* sample counts the renderer puts in a snapshot name
SppTexts == {<<"6", "4">>}
PngExt == <<".", "p", "n", "g">>


(***************************************************************************)
(* Text helpers (Python str operations used by the handlers).              *)
(***************************************************************************)
Digits == {"0", "1", "2", "3", "4", "5", "6", "7", "8", "9"}

DigitVal(c) ==
    CASE c = "0" -> 0 [] c = "1" -> 1 [] c = "2" -> 2 [] c = "3" -> 3
      [] c = "4" -> 4 [] c = "5" -> 5 [] c = "6" -> 6 [] c = "7" -> 7
      [] c = "8" -> 8 [] OTHER -> 9

\* s[i..i+Len(t)-1] = t
HasAt(s, i, t) ==
    /\ i >= 1
    /\ i + Len(t) - 1 <= Len(s)
    /\ SubSeq(s, i, i + Len(t) - 1) = t

StartsWith(s, t) == HasAt(s, 1, t)

EndsWith(s, t) == HasAt(s, Len(s) - Len(t) + 1, t)

\* faulty variant: the separators are left as they are
KeepBackslash(s) == s

\* str.replace('\\', '/')
ReplaceBackslash(s) == [i \in 1..Len(s) |-> IF s[i] = "\\" THEN "/" ELSE s[i]]

\* os.path.join(a, b) for a relative b: the separator is the platform's
PathJoin(sep, a, b) ==
    IF a = NoText THEN b
    ELSE IF a[Len(a)] = sep \/ (sep = "\\" /\ a[Len(a)] = "/") THEN a \o b
    ELSE a \o <<sep>> \o b

(***************************************************************************)
(* parse_date_from_world_name: the key a world is sorted by, or NoDate.    *)
(* The date is the triple <<year, month, day>>.                            *)
(***************************************************************************)
NoDate == << >>

IsLeap(y) == (y % 4 = 0 /\ y % 100 # 0) \/ y % 400 = 0

\* faulty variant: any day up to 31 makes a date
DaysInMonthAny(y, m) == 31

\* datetime(year, month, day) raises ValueError beyond the month's length
DaysInMonth(y, m) ==
    IF m = 2 THEN (IF IsLeap(y) THEN 29 ELSE 28)
    ELSE IF m \in {4, 6, 9, 11} THEN 30 ELSE 31

\* r'-(\d{2})(\d{2})(\d{2})$': the six digits end the name, or stand
\* before the line feed that ends it
parse_date_from_world_name(world_name) ==
    LET n == IF world_name # << >> /\ world_name[Len(world_name)] = "\n"
             THEN Len(world_name) - 1
             ELSE Len(world_name)
    IN
    IF /\ n >= 7
       /\ world_name[n - 6] = "-"
       /\ \A i \in (n - 5)..n : world_name[i] \in Digits
    THEN LET year  == 2000 + 10 * DigitVal(world_name[n - 5]) + DigitVal(world_name[n - 4])
             month == 10 * DigitVal(world_name[n - 3]) + DigitVal(world_name[n - 2])
             day   == 10 * DigitVal(world_name[n - 1]) + DigitVal(world_name[n])
         IN IF day >= 1 /\ day <= 31 /\ month >= 1 /\ month <= 12
                 /\ day <= DaysInMonth(year, month)
            THEN <<year, month, day>>
            ELSE NoDate
    ELSE NoDate

\* datetime order
DateLE(d, e) ==
    \/ d[1] < e[1]
    \/ d[1] = e[1] /\ d[2] < e[2]
    \/ d[1] = e[1] /\ d[2] = e[2] /\ d[3] <= e[3]

\* list.sort(key=date): stable insertion of world w into the sorted list
RECURSIVE InsertByDate(_, _)
InsertByDate(sorted, w) ==
    IF sorted = << >> THEN <<w>>
    ELSE LET last == sorted[Len(sorted)] IN
         IF DateLE(parse_date_from_world_name(last), parse_date_from_world_name(w))
         THEN Append(sorted, w)
         ELSE Append(InsertByDate(SubSeq(sorted, 1, Len(sorted) - 1), w), last)

RECURSIVE SortByDate(_)
SortByDate(ws) ==
    IF ws = << >> THEN << >>
    ELSE InsertByDate(SortByDate(SubSeq(ws, 1, Len(ws) - 1)), ws[Len(ws)])

IsDated(w) == parse_date_from_world_name(w) # NoDate

IsUndated(w) == parse_date_from_world_name(w) = NoDate

\* faulty variant: the worlds without a date are dropped
ScanResultDatedOnly(listing) == SortByDate(SelectSeq(listing, IsDated))

\* faulty variant: the worlds without a date come first
ScanResultUndatedFirst(listing) ==
    SelectSeq(listing, IsUndated) \o SortByDate(SelectSeq(listing, IsDated))

\* scan_worlds: the listing of the directory (os.listdir order) to world_list
ScanResult(listing) ==
    SortByDate(SelectSeq(listing, IsDated)) \o SelectSeq(listing, IsUndated)

\* the directory listings (os.listdir order) the scans of the model meet
Listings == {<< >>, <<WorldX, WorldA>>, <<WorldX, WorldA, WorldB>>}

\* QListWidget.selectedItems(): items of the list, each once, in the order Qt
\* reports them
Selections(world_list) ==
    {s \in UNION {[1..k -> Worlds] : k \in 0..Len(world_list)} :
        /\ \A i, j \in DOMAIN s : i # j => s[i] # s[j]
        /\ \A i \in DOMAIN s : \E j \in DOMAIN world_list : world_list[j] = s[i]}

(***************************************************************************)
(* Snapshot file names: glob and regular expression of the rename step.    *)
(***************************************************************************)
\* glob "<scene>-*.png" on a base name
GlobSnapshot(scene, name) ==
    /\ StartsWith(name, scene \o <<"-">>)
    /\ EndsWith(name, PngExt)
    /\ Len(name) >= Len(scene) + 1 + Len(PngExt)

\* The scene name is put into the patterns as it is, so its characters
\* are read as a regular expression: "." stands for any character but a
\* line feed, "+" repeats the character before it, any other character of
\* the scene names of this model stands for itself.
AtomMatches(c, x) == IF c = "." THEN x # "\n" ELSE x = c

\* the positions at which name can go on after scene[k..] has matched from
\* position i
RECURSIVE SceneEndsFrom(_, _, _, _)
SceneEndsFrom(scene, k, name, i) ==
    IF k > Len(scene) THEN {i}
    ELSE IF k < Len(scene) /\ scene[k + 1] = "+"
    THEN UNION {SceneEndsFrom(scene, k + 2, name, i + r) :
                   r \in {n \in 1..(Len(name) - i + 1) :
                             \A j \in i..(i + n - 1) : AtomMatches(scene[k], name[j])}}
    ELSE IF i <= Len(name) /\ AtomMatches(scene[k], name[i])
    THEN SceneEndsFrom(scene, k + 1, name, i + 1)
    ELSE {}

\* "-(\d+).png" matches name from position p with k digits
\* (the dot before png is unescaped: any character)
MatchTail(name, p, k) ==
    /\ HasAt(name, p, <<"-">>)
    /\ k >= 1
    /\ p + k + 4 <= Len(name)
    /\ \A j \in (p + 1)..(p + k) : name[j] \in Digits
    /\ name[p + k + 1] # "\n"
    /\ HasAt(name, p + k + 2, <<"p", "n", "g">>)

\* re "<scene>-(\d+).png" matches name at position i with k digits
MatchAt(scene, name, i, k) ==
    \E p \in SceneEndsFrom(scene, 1, name, i) : MatchTail(name, p, k)

\* <<i, p, k>>: a match from i, the scene part ending before p, k digits
MatchPoints(scene, name) ==
    {t \in UNION {{<<i, q, k>> : q \in SceneEndsFrom(scene, 1, name, i),
                                 k \in 1..Len(name)} : i \in 1..Len(name)} :
        MatchTail(name, t[2], t[3])}

\* the largest x of a non-empty set of numbers
MaxOf(xs) == CHOOSE x \in xs : \A y \in xs : y <= x
MinOf(xs) == CHOOSE x \in xs : \A y \in xs : x <= y

\* re.search: leftmost position, then the longest scene part, then the
\* longest run of digits; group(1), or NoText when there is no match
SppGroup(scene, name) ==
    LET pts == MatchPoints(scene, name) IN
    IF pts = {} THEN NoText
    ELSE LET i == MinOf({t[1] : t \in pts})
             q == MaxOf({t[2] : t \in {u \in pts : u[1] = i}})
             k == MaxOf({t[3] : t \in {u \in pts : u[1] = i /\ u[2] = q}})
         IN SubSeq(name, q + 1, q + k)

\* os.path.splitext(base_name)[0]: the name without its last extension
SplitExtRoot(name) ==
    LET dots == {i \in 2..Len(name) : name[i] = "."} IN
    IF dots = {} THEN name
    ELSE SubSeq(name, 1, (CHOOSE d \in dots : \A e \in dots : e <= d) - 1)

SplitExtExt(name) == SubSeq(name, Len(SplitExtRoot(name)) + 1, Len(name))

\* the new base name rename_snapshot_with_world_name gives to base_name
NewSnapshotName(scene, base_name, world) ==
    LET spp_num == SppGroup(scene, base_name) IN
    IF spp_num # NoText
    THEN scene \o <<"-">> \o spp_num \o <<"-">> \o world \o PngExt
    ELSE SplitExtRoot(base_name) \o <<"-">> \o world \o SplitExtExt(base_name)

\* the name the renderer writes: "<scene>-<spp>.png"
RenderedName(scene, spp) == scene \o <<"-">> \o spp \o PngExt

\* glob "<scene>-*-*.png" on a base name (create_video_from_snapshots)
GlobWorldSnapshot(scene, name) ==
    /\ StartsWith(name, scene \o <<"-">>)
    /\ EndsWith(name, PngExt)
    /\ \E j \in (Len(scene) + 2)..(Len(name) - Len(PngExt)) : name[j] = "-"

\* "-\d+-": the lengths d of the runs of digits that follow the dash at
\* position q and end before another dash
DigitRuns(name, q) ==
    IF ~HasAt(name, q, <<"-">>) THEN {}
    ELSE {d \in 1..(Len(name) - q - 1) :
             /\ \A j \in (q + 1)..(q + d) : name[j] \in Digits
             /\ name[q + d + 1] = "-"}

\* "(.+)\.png": the lengths g of the groups that follow position p, hold
\* no line feed, and are followed by ".png"
WorldLengths(name, p) ==
    {g \in 1..(Len(name) - p) :
        /\ \A j \in (p + 1)..(p + g) : name[j] # "\n"
        /\ HasAt(name, p + g + 1, PngExt)}

\* <<i, q, d, g>>: the matches of "<scene>-\d+-(.+)\.png" in name: the
\* scene part is name[i..q-1], the digits name[q+1..q+d], the group the g
\* characters after position q+d+1
WorldPoints(scene, name) ==
    UNION {UNION {UNION {{<<i, q, d, g>> : g \in WorldLengths(name, q + d + 1)} :
                            d \in DigitRuns(name, q)} :
                     q \in SceneEndsFrom(scene, 1, name, i)} :
              i \in 1..Len(name)}

\* re.search: leftmost position, then the longest scene part, the longest
\* run of digits, the longest group; group(1), or NoText when nothing matches
WorldGroup(scene, name) ==
    LET pts == WorldPoints(scene, name) IN
    IF pts = {} THEN NoText
    ELSE LET i == MinOf({t[1] : t \in pts})
             q == MaxOf({t[2] : t \in {u \in pts : u[1] = i}})
             d == MaxOf({t[3] : t \in {u \in pts : u[1] = i /\ u[2] = q}})
             g == MaxOf({t[4] : t \in {u \in pts : u[1] = i /\ u[2] = q /\ u[3] = d}})
         IN SubSeq(name, q + d + 2, q + d + 1 + g)

\* world_name of a snapshot without a match
UnknownWorld == <<"unknown">>

\* datetime.min, the sort key of a snapshot without a date
MinDate == <<1, 1, 1>>

\* one element of sorted_snapshots: (snapshot, parsed date or datetime.min,
\* world name)
CollectedSnapshot(scene, name) ==
    LET world_name == WorldGroup(scene, name) IN
    IF world_name # NoText
    THEN LET parsed_date == parse_date_from_world_name(world_name) IN
         [snapshot |-> name,
          date |-> IF parsed_date # NoDate THEN parsed_date ELSE MinDate,
          world_name |-> world_name]
    ELSE [snapshot |-> name, date |-> MinDate, world_name |-> UnknownWorld]

\* sorted_snapshots.sort(key=lambda x: x[1]): stable insertion of item
RECURSIVE InsertSnapshot(_, _)
InsertSnapshot(sorted, item) ==
    IF sorted = << >> THEN <<item>>
    ELSE LET last == sorted[Len(sorted)] IN
         IF DateLE(last.date, item.date)
         THEN Append(sorted, item)
         ELSE Append(InsertSnapshot(SubSeq(sorted, 1, Len(sorted) - 1), item), last)

\* faulty variant: the list is left in the order of discovery
SortSnapshotsNone(items) == items

RECURSIVE SortSnapshots(_)
SortSnapshots(items) ==
    IF items = << >> THEN << >>
    ELSE InsertSnapshot(SortSnapshots(SubSeq(items, 1, Len(items) - 1)),
                        items[Len(items)])

\* create_video_from_snapshots: found is what glob returns, in its order;
\* the result is sorted_snapshots after the sort
SortedSnapshots(scene, found) ==
    SortSnapshots([i \in 1..Len(found) |-> CollectedSnapshot(scene, found[i])])


(***************************************************************************)
(* State.                                                                  *)
(*   app            fields of the ChunkyTimelapseApp object                  *)
(*   ui             widgets the handlers set: render button, progress bar  *)
(*   json_files     <scenes_dir>/<scene>/<scene>.json: the world.path held *)
(*   scene_files    the other files of <scenes_dir>/<scene>: name, and     *)
(*                  whether os.remove fails on the file (locked)           *)
(*   snapshot_files files under <scenes_dir>/<scene>/snapshots             *)
(*   procs          external render processes not yet waited for           *)
(*   monitors       monitor_queue_process threads                          *)
(*   timers         pending QTimer.singleShot(1000, process_render_queue)  *)
(*   enqueued       the list the current batch was started with            *)
(*   batch          scene_name and world_dir as they were when the current *)
(*                  batch was started; all_ok records that so far every    *)
(*                  process of the batch wrote a snapshot of that scene    *)
(*                  and ended with return code 0, and every rename step    *)
(*                  moved a file of that scene                             *)
(*   events         what the GUI-thread handlers did in the current batch: *)
(*                  log lines and process launches, in order               *)
(*   progress       progress_update_signal emissions of the current batch  *)
(*   jobs, edits    counters of the bounds                                 *)
(***************************************************************************)
VARIABLES app, ui, json_files, scene_files, snapshot_files, procs, monitors,
          timers, enqueued, batch, events, progress, jobs, edits,
          call, reader, video

vars == <<app, ui, json_files, scene_files, snapshot_files, procs, monitors,
          timers, enqueued, batch, events, progress, jobs, edits,
          call, reader, video>>

\* the variables of the render queue
queue_vars == <<app, ui, json_files, scene_files, snapshot_files, procs, monitors,
                timers, enqueued, batch, events, progress, jobs, edits>>

\* no call under study, no output reader, no video assembly
NoCall == [op |-> "none"]
NoReader == [pc |-> "none"]
NoVideo == [pc |-> "none"]

\* QMessageBox.warning: ui.warning is the last warning shown since a batch
\* was last accepted
NoWarning == "none"
AlreadyRunning == "A render is already in progress"
NoSelection == "No worlds selected for rendering"

\* scene_json_data = None
NoJson == [loaded |-> FALSE, scene |-> NoText, path |-> NoText]

\* current_process = None
NoProcess == 0

ExitCodes == {0, 1}

\* what can go wrong for one job inside process_render_queue
Outcomes == {"ok", "write_error", "launch_error"}

Ev(kind, world, n) == [ev |-> kind, world |-> world, n |-> n]

\* the handlers work on the part of the state they can change
State ==
    [app |-> app, ui |-> ui, json_files |-> json_files, scene_files |-> scene_files,
     procs |-> procs,
     monitors |-> monitors, enqueued |-> enqueued, batch |-> batch,
     events |-> events,
     progress |-> progress]

Apply(r) ==
    /\ app' = r.app
    /\ ui' = r.ui
    /\ json_files' = r.json_files
    /\ scene_files' = r.scene_files
    /\ procs' = r.procs
    /\ monitors' = r.monitors
    /\ enqueued' = r.enqueued
    /\ batch' = r.batch
    /\ events' = r.events
    /\ progress' = r.progress

QueueInitOn(files, others) ==
    /\ app \in {[chunky_launcher_path |-> launcher,
                 scene_name |-> scene,
                 scene_json_data |-> IF scene = NoText THEN NoJson
                                     ELSE [loaded |-> TRUE, scene |-> scene, path |-> NoText],
                 world_dir |-> NoText,
                 world_list |-> << >>,
                 render_queue |-> << >>,
                 currently_rendering |-> FALSE,
                 current_process |-> NoProcess,
                 output_reader |-> "None",
                 current_world_name |-> NoText,
                 snapshot_pattern |-> NoText] :
                    launcher \in BOOLEAN, scene \in Scenes \cup {NoText}}
    /\ ui = [render_button |-> FALSE,
             progress_bar |-> [value |-> -1, maximum |-> 100],
             warning |-> NoWarning]
    /\ json_files = [s \in Scenes |-> NoText]
    /\ scene_files = others
    /\ snapshot_files = files
    /\ procs = [p \in {} |-> 0]
    /\ monitors = {}
    /\ timers = 0
    /\ enqueued = << >>
    /\ batch = [scene_name |-> NoText, world_dir |-> NoText, all_ok |-> TRUE]
    /\ events = << >>
    /\ progress = << >>
    /\ jobs = 0
    /\ edits = 0

\* the scene directories hold their JSON file and the snapshots in files
QueueInitWith(files) == QueueInitOn(files, {})

\* the snapshots directories are empty
QueueInit == QueueInitWith({})

Init ==
    /\ QueueInit
    /\ call = NoCall
    /\ reader = NoReader
    /\ video = NoVideo

(***************************************************************************)
(* Handlers of the GUI thread.                                             *)
(***************************************************************************)
\* update_render_button_state
update_render_button_state(st) ==
    LET can_render == /\ st.app.chunky_launcher_path
                      /\ st.app.scene_name # NoText
                      /\ st.app.world_dir # NoText
                      /\ st.app.scene_json_data.loaded
    IN [st EXCEPT !.ui.render_button = can_render]

\* update_progress_bar, the slot of progress_update_signal (same thread)
update_progress_bar(st, current, total) ==
    LET old == st.ui.progress_bar.value
        kept == IF old <= total THEN old ELSE -1
    IN [st EXCEPT !.ui.progress_bar =
                      [value |-> IF current >= 0 /\ current <= total THEN current ELSE kept,
                       maximum |-> total],
                  !.progress = Append(@, <<current, total>>)]

\* update_scene_json_with_path: <<new state, returned value>>
update_scene_json_with_path(st, world_path, outcome) ==
    IF ~st.app.scene_json_data.loaded THEN <<st, FALSE>>
    ELSE LET normalized_path == ReplaceBackslash(world_path)
             assigned == [st EXCEPT !.app.scene_json_data.path = normalized_path]
         IN IF outcome = "write_error" \/ st.app.scene_name \notin Scenes
            THEN <<assigned, FALSE>>
            ELSE <<[assigned EXCEPT !.json_files[st.app.scene_name] = normalized_path,
                                    !.events = Append(@, Ev("rewrite", normalized_path, 0))],
                   TRUE>>

OctreeExt == <<".", "o", "c", "t", "r", "e", "e", "2">>
DumpExt == <<".", "d", "u", "m", "p">>

\* glob.glob(os.path.join(scene_path, "*" + ext)): the name ends with ext and
\* does not begin with a dot
GlobExt(name, ext) == Len(name) >= Len(ext) /\ name[1] # "." /\ EndsWith(name, ext)

\* the files of scene_files the two globs of cleanup_scene_files list
CacheFiles(files, scene, ext) == {f \in files : f.dir = scene /\ GlobExt(f.name, ext)}

\* the files the two loops of cleanup_scene_files remove: os.remove raises at
\* the first file that cannot be removed, and the files after it stay.  The
\* directories met hold at most one file of each kind, so the order in which
\* glob lists the files of one kind does not matter.
RemovedByCleanup(files, scene) ==
    LET octree_files == CacheFiles(files, scene, OctreeExt)
        dump_files == CacheFiles(files, scene, DumpExt)
    IN IF \E f \in octree_files : f.locked THEN {}
       ELSE IF \E f \in dump_files : f.locked THEN octree_files
       ELSE octree_files \cup dump_files

\* cleanup_scene_files: "Cleanup completed" is logged when every file found
\* was removed, "Error during cleanup" when os.remove raised; n is total_files
cleanup_scene_files(st, world_name) ==
    IF st.app.scene_name = NoText THEN st
    ELSE LET scene == st.app.scene_name
             found == CacheFiles(st.scene_files, scene, OctreeExt)
                         \cup CacheFiles(st.scene_files, scene, DumpExt)
             removed == RemovedByCleanup(st.scene_files, scene)
         IN [st EXCEPT
                !.scene_files = @ \ removed,
                !.events = Append(@, Ev(IF removed = found THEN "cleanup"
                                        ELSE "cleanup_error",
                                        world_name, Cardinality(found)))]

\* a handle for the new process: the smallest id not in use
FreshPid(ps) ==
    CHOOSE p \in 1..(Cardinality(DOMAIN ps) + 1) :
        /\ p \notin DOMAIN ps
        /\ \A q \in 1..(p - 1) : q \in DOMAIN ps

\* faulty variant: pop() takes the last world instead of the first
NextWorldLast(queue) == queue[Len(queue)]

\* self.render_queue.pop(0): the world taken
NextWorld(queue) == Head(queue)

\* faulty variant: taking a job removes the job behind it as well
RestQueueTwo(queue) == IF Len(queue) > 1 THEN Tail(Tail(queue)) ELSE Tail(queue)

\* self.render_queue after pop(0)
RestQueue(queue) == Tail(queue)

\* current_index and total_worlds of process_render_queue, after the pop
ProgressOfJob(st) ==
    <<Len(st.app.world_list) - Len(st.app.render_queue), Len(st.app.world_list)>>

\* the branch of process_render_queue taken when the queue is empty
QueueComplete(st) ==
    [st EXCEPT !.events = Append(@, Ev("complete", NoText, 0)),
               !.app.currently_rendering = FALSE,
               !.ui.progress_bar.value = st.ui.progress_bar.maximum,
               !.ui.render_button = TRUE]

\* threading.Thread(target=self.monitor_queue_process): the thread started for
\* process pid; world and rename_called only record what the thread is about,
\* log the lines it has sent to the log, each with the way it was sent
MonitorThread(pid, world) ==
    [job |-> pid, world |-> world, pc |-> "start", proc |-> NoProcess, rc |-> 0,
     rename_called |-> FALSE, log |-> << >>]

\* faulty variant: currently_rendering is cleared when the last job of the queue
\* is launched
LaunchLastClearsFlag(st) ==
    LET pid == FreshPid(st.procs)
        process == [scene |-> st.app.scene_name,
                    world |-> st.app.current_world_name,
                    state |-> "running", rc |-> 0]
    IN
    [st EXCEPT !.events = Append(@, Ev("launch", st.app.current_world_name, pid)),
               !.procs = [p \in DOMAIN st.procs \cup {pid} |->
                             IF p = pid THEN process ELSE st.procs[p]],
               !.app.current_process = pid,
               !.app.output_reader = "running",
               !.app.currently_rendering = st.app.render_queue # << >>,
               !.monitors = @ \cup {MonitorThread(pid, st.app.current_world_name)}]

\* faulty variant: current_world_name keeps the world of the first job of the
\* batch
LaunchFirstWorldName(st) ==
    LET pid == FreshPid(st.procs)
        process == [scene |-> st.app.scene_name,
                    world |-> st.app.current_world_name,
                    state |-> "running", rc |-> 0]
    IN
    [st EXCEPT !.events = Append(@, Ev("launch", st.app.current_world_name, pid)),
               !.procs = [p \in DOMAIN st.procs \cup {pid} |->
                             IF p = pid THEN process ELSE st.procs[p]],
               !.app.current_process = pid,
               !.app.output_reader = "running",
               !.app.current_world_name = st.enqueued[1],
               !.monitors = @ \cup {MonitorThread(pid, st.app.current_world_name)}]

\* subprocess.Popen succeeded: the process, the output reader and the monitor thread
Launch(st) ==
    LET pid == FreshPid(st.procs)
        process == [scene |-> st.app.scene_name,
                    world |-> st.app.current_world_name,
                    state |-> "running", rc |-> 0]
    IN
    [st EXCEPT !.events = Append(@, Ev("launch", st.app.current_world_name, pid)),
               !.procs = [p \in DOMAIN st.procs \cup {pid} |->
                             IF p = pid THEN process ELSE st.procs[p]],
               !.app.current_process = pid,
               !.app.output_reader = "running",
               !.monitors = @ \cup {MonitorThread(pid, st.app.current_world_name)}]

RECURSIVE process_render_queue(_, _, _)
\* faulty variant: a failed launch is logged and the queue is left waiting
render_scene_for_queue_stall(st, oc, d) ==
    IF oc[d] = "launch_error"
    THEN [st EXCEPT !.events = Append(@, Ev("launch_error", st.app.current_world_name, 0))]
    ELSE Launch(st)

\* faulty variant: the monitor thread is started outside the try block, also when
\* Popen failed
render_scene_for_queue_monitor(st, oc, d) ==
    IF oc[d] = "launch_error"
    THEN process_render_queue(
             [st EXCEPT !.events = Append(@, Ev("launch_error", st.app.current_world_name, 0)),
                        !.monitors = @ \cup {MonitorThread(NoProcess,
                                                           st.app.current_world_name)}],
             oc, d + 1)
    ELSE Launch(st)

\* render_scene_for_queue; oc[d] is what happens to this job
render_scene_for_queue(st, oc, d) ==
    IF oc[d] = "launch_error"
    THEN process_render_queue(
             [st EXCEPT !.events = Append(@, Ev("launch_error", st.app.current_world_name, 0))],
             oc, d + 1)
    ELSE Launch(st)

\* faulty variant: the skipped job ends the call, nothing processes the queue on
SkipWorldStop(st, world_name, oc, d) ==
    [st EXCEPT !.events = Append(@, Ev("skip", world_name, 0))]

\* the job whose JSON update failed is logged and the queue is processed on
SkipWorld(st, world_name, oc, d) ==
    process_render_queue(
        [st EXCEPT !.events = Append(@, Ev("skip", world_name, 0))], oc, d + 1)

\* faulty variant: the cleanup comes before the JSON file is rewritten
process_render_queue_cleanup_first(st, oc, d) ==
    IF st.app.render_queue = << >> THEN QueueComplete(st)
    ELSE LET world_name == NextWorld(st.app.render_queue)
             world_path == PathJoin(OsSep, st.app.world_dir, world_name)
             popped == [st EXCEPT !.app.render_queue = RestQueue(@)]
             shown == update_progress_bar(popped, ProgressOfJob(popped)[1],
                                          ProgressOfJob(popped)[2])
             logged == [shown EXCEPT !.events = Append(@, Ev("process", world_name, 0))]
             updated == update_scene_json_with_path(
                            cleanup_scene_files(logged, world_name), world_path, oc[d])
         IN IF ~updated[2]
            THEN SkipWorld(updated[1], world_name, oc, d)
            ELSE render_scene_for_queue(
                     [updated[1] EXCEPT !.app.current_world_name = world_name],
                     oc, d)

\* process_render_queue; oc[d] is what happens to the d-th job this call takes.
\* The state the call starts from and the state the rewrite leaves are bound
\* as s and u, so that each is computed once.
process_render_queue(st, oc, d) ==
    LET process(s) ==
            IF s.app.render_queue = << >> THEN QueueComplete(s)
            ELSE LET world_name == NextWorld(s.app.render_queue)
                     world_path == PathJoin(OsSep, s.app.world_dir, world_name)
                     popped == [s EXCEPT !.app.render_queue = RestQueue(@)]
                     shown == update_progress_bar(popped, ProgressOfJob(popped)[1],
                                                  ProgressOfJob(popped)[2])
                     logged == [shown EXCEPT
                                   !.events = Append(@, Ev("process", world_name, 0))]
                     rewritten(updated) ==
                         IF ~updated[2]
                         THEN SkipWorld(updated[1], world_name, oc, d)
                         ELSE render_scene_for_queue(
                                  [cleanup_scene_files(updated[1], world_name)
                                      EXCEPT !.app.current_world_name = world_name],
                                  oc, d)
                 IN CHOOSE r \in {rewritten(u) :
                                    u \in {update_scene_json_with_path(
                                               logged, world_path, oc[d])}} : TRUE
    IN CHOOSE r \in {process(s) : s \in {st}} : TRUE

\* detect_snapshot_pattern; first is snapshot_files[0] of the glob, or NoText
detect_snapshot_pattern(st, first) ==
    LET wildcard == st.app.scene_name \o <<"-", "*">> \o PngExt
        spp == SppGroup(st.app.scene_name, first)
    IN [st EXCEPT !.app.snapshot_pattern =
            IF first = NoText \/ spp = NoText THEN wildcard
            ELSE st.app.scene_name \o <<"-">> \o spp \o PngExt]

\* faulty variant: the guard of start_render_queue is missing
RenderInProgressIgnored(st) == FALSE

\* the guard of start_render_queue
RenderInProgress(st) == st.app.currently_rendering

\* faulty variant: a start while a batch drains appends the selection to the queue
MergeStart(st, selected_worlds) ==
    [st EXCEPT !.app.render_queue = @ \o selected_worlds]

\* start_render_queue while currently_rendering: a warning and nothing else
RejectStart(st, selected_worlds) ==
    [st EXCEPT !.ui.warning = AlreadyRunning]

\* faulty variant: the selection is not tested, a batch of no job begins
start_render_queue_unchecked(st, selected_worlds, first, oc) ==
    IF RenderInProgress(st) THEN RejectStart(st, selected_worlds)
    ELSE LET queued == [st EXCEPT !.app.render_queue = selected_worlds,
                                  !.app.currently_rendering = TRUE,
                                  !.ui.warning = NoWarning]
             detected == detect_snapshot_pattern(queued, first)
             begun == [detected EXCEPT
                          !.enqueued = selected_worlds,
                          !.batch = [scene_name |-> st.app.scene_name,
                                        world_dir |-> st.app.world_dir,
                                        all_ok |-> TRUE],
                          !.events = <<Ev("enqueue", NoText, Len(selected_worlds))>>,
                          !.progress = << >>]
         IN process_render_queue(
                update_progress_bar(begun, 0, Len(begun.app.render_queue)), oc, 1)

\* start_render_queue
start_render_queue(st, selected_worlds, first, oc) ==
    IF RenderInProgress(st) THEN RejectStart(st, selected_worlds)
    ELSE IF selected_worlds = << >> THEN [st EXCEPT !.ui.warning = NoSelection]
    ELSE LET queued == [st EXCEPT !.app.render_queue = selected_worlds,
                                  !.app.currently_rendering = TRUE,
                                  !.ui.warning = NoWarning]
             detected == detect_snapshot_pattern(queued, first)
             begun == [detected EXCEPT
                          !.enqueued = selected_worlds,
                          !.batch = [scene_name |-> st.app.scene_name,
                                        world_dir |-> st.app.world_dir,
                                        all_ok |-> TRUE],
                          !.events = <<Ev("enqueue", NoText, Len(selected_worlds))>>,
                          !.progress = << >>]
         IN process_render_queue(
                update_progress_bar(begun, 0, Len(begun.app.render_queue)), oc, 1)


\* the outcomes of the jobs one call of process_render_queue can take from a
\* queue of n: the call ends with the first job that is launched
OutcomeChoices(n) ==
    {oc \in [1..n -> Outcomes] : \A i \in 1..(n - 1) : oc[i] = "ok" => oc[i + 1] = "ok"}

\* the base names glob can list first for detect_snapshot_pattern
FirstSnapshots(st) ==
    LET found == {f.name : f \in {g \in snapshot_files :
                      /\ g.dir = st.app.scene_name
                      /\ GlobSnapshot(st.app.scene_name, g.name)}}
    IN IF found = {} THEN {NoText} ELSE found

\* render_button.clicked: start_render_queue
StartRenderQueue ==
    /\ ui.render_button
    /\ \E selected_worlds \in Selections(app.world_list) :
       LET accepted == ~RenderInProgress(State) /\ selected_worlds # << >> IN
       \E first \in IF accepted THEN FirstSnapshots(State) ELSE {NoText} :
       \E oc \in IF accepted THEN OutcomeChoices(Len(selected_worlds)) ELSE {<< >>} :
          /\ accepted => jobs + Len(selected_worlds) <= MaxJobs
          /\ jobs' = IF accepted THEN jobs + Len(selected_worlds) ELSE jobs
          /\ \E r \in {start_render_queue(State, selected_worlds, first, oc)} : Apply(r)
    /\ UNCHANGED <<snapshot_files, timers, edits>>
    /\ UNCHANGED <<call, reader, video>>

\* the single-shot timer fires in the GUI thread: process_render_queue
TimerFire ==
    /\ timers > 0
    /\ timers' = timers - 1
    /\ \E oc \in OutcomeChoices(Len(app.render_queue)) :
          \E r \in {process_render_queue(State, oc, 1)} : Apply(r)
    /\ UNCHANGED <<snapshot_files, jobs, edits>>
    /\ UNCHANGED <<call, reader, video>>

\* changes made by the user once a batch has begun count against MaxEdits
EditAllowed ==
    /\ jobs > 0 => edits < MaxEdits
    /\ edits' = IF jobs > 0 THEN edits + 1 ELSE edits

\* browse_chunky_launcher / on_download_complete
BrowseChunkyLauncher ==
    /\ ~app.chunky_launcher_path
    /\ Apply(update_render_button_state([State EXCEPT !.app.chunky_launcher_path = TRUE]))
    /\ UNCHANGED <<snapshot_files, timers, jobs, edits>>
    /\ UNCHANGED <<call, reader, video>>

\* on_scene_selected
on_scene_selected(st, scene_name, load_ok) ==
    IF scene_name = NoText \/ ~load_ok
    THEN update_render_button_state(
             [st EXCEPT !.app.scene_name = NoText, !.app.scene_json_data = NoJson])
    ELSE update_render_button_state(
             [st EXCEPT !.app.scene_name = scene_name,
                        !.app.scene_json_data =
                            [loaded |-> TRUE, scene |-> scene_name,
                             path |-> st.json_files[scene_name]]])

\* scene_combo.currentTextChanged
OnSceneSelected ==
    /\ EditAllowed
    /\ \E scene_name \in Scenes \cup {NoText}, load_ok \in BOOLEAN :
          /\ scene_name = NoText => load_ok
          /\ Apply(on_scene_selected(State, scene_name, load_ok))
    /\ UNCHANGED <<snapshot_files, timers, jobs>>
    /\ UNCHANGED <<call, reader, video>>

\* scan_worlds; listing is what os.listdir returns
scan_worlds(st, listing) ==
    IF st.app.world_dir = NoText THEN [st EXCEPT !.app.world_list = << >>]
    ELSE [st EXCEPT !.app.world_list = ScanResult(listing)]

\* the Scan Worlds button
ScanWorlds ==
    /\ EditAllowed
    /\ \E listing \in Listings : Apply(scan_worlds(State, listing))
    /\ UNCHANGED <<snapshot_files, timers, jobs>>
    /\ UNCHANGED <<call, reader, video>>

\* browse_world_dir
BrowseWorldDir ==
    /\ EditAllowed
    /\ \E dir_path \in Dirs, listing \in Listings :
          Apply(update_render_button_state(
                    scan_worlds([State EXCEPT !.app.world_dir = dir_path], listing)))
    /\ UNCHANGED <<snapshot_files, timers, jobs>>
    /\ UNCHANGED <<call, reader, video>>

(***************************************************************************)
(* The external render process.                                            *)
(***************************************************************************)
NextMtime(files) ==
    IF files = {} THEN 1
    ELSE 1 + (CHOOSE m \in {f.mtime : f \in files} : \A f \in files : f.mtime <= m)

\* the renderer writes <scene>-<spp>.png into its scene's snapshots directory
WriteSnapshot(files, scene, spp) ==
    LET name == RenderedName(scene, spp) IN
    {f \in files : ~(f.dir = scene /\ f.name = name)}
        \cup {[dir |-> scene, name |-> name, mtime |-> NextMtime(files)]}

\* with a snapshot the renderer saves <scene>.octree2 and <scene>.dump into
\* the scene directory; a file it cannot replace stays as it is
WriteCache(files, scene) ==
    files \cup {[dir |-> scene, name |-> scene \o ext, locked |-> FALSE] :
                   ext \in {e \in {OctreeExt, DumpExt} :
                              ~\E f \in files : f.dir = scene /\ f.name = scene \o e}}

\* the process ends with exit status rc, having written a snapshot or not
ProcessExit ==
    /\ \E pid \in DOMAIN procs :
          /\ procs[pid].state = "running"
          /\ \E rc \in ExitCodes :
                /\ procs' = [procs EXCEPT ![pid].state = "exited", ![pid].rc = rc]
                /\ \/ /\ UNCHANGED <<scene_files, snapshot_files>>
                      /\ batch' = [batch EXCEPT !.all_ok = FALSE]
                   \/ \E spp \in SppTexts :
                         /\ procs[pid].scene # NoText
                         /\ snapshot_files' =
                                WriteSnapshot(snapshot_files, procs[pid].scene, spp)
                         /\ scene_files' = WriteCache(scene_files, procs[pid].scene)
                         /\ batch' = [batch EXCEPT !.all_ok =
                                        /\ @
                                        /\ rc = 0
                                        /\ procs[pid].scene = batch.scene_name]
    /\ UNCHANGED <<app, ui, json_files, monitors, timers, enqueued, events,
                   progress, jobs, edits>>
    /\ UNCHANGED <<call, reader, video>>

(***************************************************************************)
(* The monitor thread: monitor_queue_process.                              *)
(***************************************************************************)
\* the snapshot files glob finds for the rename step
SnapshotCandidates(files, scene) ==
    {f \in files : f.dir = scene /\ GlobSnapshot(scene, f.name)}

\* max(snapshot_files, key=os.path.getmtime)
LatestSnapshot(found) == CHOOSE f \in found : \A g \in found : g.mtime <= f.mtime

\* faulty variant: a move that fails has already removed the snapshot
rename_snapshot_lost_on_error(files, scene, world, move_ok) ==
    LET found == SnapshotCandidates(files, scene) IN
    IF found = {} THEN files
    ELSE IF ~move_ok THEN files \ {LatestSnapshot(found)}
    ELSE LET latest_snapshot == LatestSnapshot(found)
             new_name == NewSnapshotName(scene, latest_snapshot.name, world)
         IN {f \in files : f # latest_snapshot /\ ~(f.dir = scene /\ f.name = new_name)}
                \cup {[latest_snapshot EXCEPT !.name = new_name]}

\* rename_snapshot_with_world_name on the files of the snapshots directory
rename_snapshot_with_world_name(files, scene, world, move_ok) ==
    LET found == SnapshotCandidates(files, scene) IN
    IF found = {} \/ ~move_ok THEN files
    ELSE LET latest_snapshot == LatestSnapshot(found)
             new_name == NewSnapshotName(scene, latest_snapshot.name, world)
         IN {f \in files : f # latest_snapshot /\ ~(f.dir = scene /\ f.name = new_name)}
                \cup {[latest_snapshot EXCEPT !.name = new_name]}

\* the line rename_snapshot_with_world_name logs; dir_exists is
\* os.path.exists(snapshot_dir)
RenameLog(files, scene, world, move_ok, dir_exists) ==
    IF ~dir_exists THEN "No snapshots directory found"
    ELSE IF SnapshotCandidates(files, scene) = {} THEN "No snapshot files found"
    ELSE IF ~move_ok THEN "Error renaming snapshot"
    ELSE "Renamed snapshot to"

\* a line sent by self.log_update_signal.emit(text), and one sent by calling
\* self.append_to_log(text)
Emitted(text) == [line |-> text, via |-> "log_update_signal"]
Called(text) == [line |-> text, via |-> "append_to_log"]

\* faulty variant: the rename step does not depend on the exit status
ExitSuccessAlways(return_code) == TRUE

\* return_code == 0
ExitSuccess(return_code) == return_code = 0

\* the thread begins: "if not self.current_process: return"
MonitorStart ==
    /\ \E m \in monitors :
          /\ m.pc = "start"
          /\ monitors' = IF app.current_process = NoProcess THEN monitors \ {m}
                         ELSE (monitors \ {m})
                                  \cup {[m EXCEPT !.pc = "wait", !.proc = app.current_process]}
    /\ UNCHANGED <<app, ui, json_files, scene_files, snapshot_files, procs, timers,
                   enqueued, batch, events, progress, jobs, edits>>
    /\ UNCHANGED <<call, reader, video>>

\* wait() returns; the output reader is stopped; the completion line is emitted
MonitorWaitReturn ==
    /\ \E m \in monitors :
          /\ m.pc = "wait"
          /\ m.proc \in DOMAIN procs
          /\ procs[m.proc].state = "exited"
          /\ LET return_code == procs[m.proc].rc IN
             /\ monitors' = (monitors \ {m})
                     \cup {[m EXCEPT !.rc = return_code,
                                     !.log = Append(@, Emitted("Render process completed")),
                                     !.pc = IF ExitSuccess(return_code)
                                            THEN "rename" ELSE "defer"]}
          /\ procs' = [p \in DOMAIN procs \ {m.proc} |-> procs[p]]
    /\ app' = [app EXCEPT !.output_reader = IF @ = "None" THEN @ ELSE "stopped"]
    /\ UNCHANGED <<ui, json_files, scene_files, snapshot_files, timers, enqueued,
                   batch, events, progress, jobs, edits>>
    /\ UNCHANGED <<call, reader, video>>

\* rename_snapshot_with_world_name, called in the monitor thread
MonitorRename ==
    /\ \E m \in monitors :
          /\ m.pc = "rename"
          /\ \E move_ok, dir_exists \in BOOLEAN :
                /\ (\E f \in snapshot_files : f.dir = app.scene_name) => dir_exists
                /\ snapshot_files' = rename_snapshot_with_world_name(
                       snapshot_files, app.scene_name, app.current_world_name,
                       move_ok /\ dir_exists)
                /\ monitors' = (monitors \ {m})
                      \cup {[m EXCEPT
                                !.pc = "defer",
                                !.rename_called = TRUE,
                                !.log = Append(@, Called(RenameLog(
                                            snapshot_files, app.scene_name,
                                            app.current_world_name, move_ok, dir_exists)))]}
                /\ batch' = [batch EXCEPT !.all_ok =
                                /\ @
                                /\ app.scene_name = batch.scene_name
                                /\ RenameLog(snapshot_files, app.scene_name,
                                             app.current_world_name, move_ok, dir_exists)
                                      = "Renamed snapshot to"]
    /\ UNCHANGED <<app, ui, json_files, scene_files, procs, timers, enqueued,
                   events, progress, jobs, edits>>
    /\ UNCHANGED <<call, reader, video>>

\* faulty variant: the timer is armed twice
MonitorDeferTwice ==
    /\ \E m \in monitors :
          /\ m.pc = "defer"
          /\ monitors' = monitors \ {m}
    /\ timers' = timers + 2
    /\ UNCHANGED <<app, ui, json_files, scene_files, snapshot_files, procs, enqueued,
                   batch, events, progress, jobs, edits>>
    /\ UNCHANGED <<call, reader, video>>

\* faulty variant: the monitor thread calls process_render_queue itself, as soon as
\* wait() has returned
MonitorAdvanceDirect ==
    /\ \E m \in monitors :
          /\ m.pc \in {"rename", "defer"}
          /\ \E oc \in OutcomeChoices(Len(app.render_queue)) :
                Apply(process_render_queue(
                          [State EXCEPT !.monitors = @ \ {m}], oc, 1))
    /\ UNCHANGED <<snapshot_files, timers, jobs, edits>>
    /\ UNCHANGED <<call, reader, video>>

\* QTimer.singleShot(1000, self.process_render_queue); the thread ends
MonitorDefer ==
    /\ \E m \in monitors :
          /\ m.pc = "defer"
          /\ monitors' = monitors \ {m}
    /\ timers' = timers + 1
    /\ UNCHANGED <<app, ui, json_files, scene_files, snapshot_files, procs, enqueued,
                   batch, events, progress, jobs, edits>>
    /\ UNCHANGED <<call, reader, video>>

Next ==
    \/ StartRenderQueue
    \/ TimerFire
    \/ BrowseChunkyLauncher
    \/ OnSceneSelected
    \/ ScanWorlds
    \/ BrowseWorldDir
    \/ ProcessExit
    \/ MonitorStart
    \/ MonitorWaitReturn
    \/ MonitorRename
    \/ MonitorDefer

Spec == Init /\ [][Next]_vars

(***************************************************************************)
(* The render queue on scene directories that hold files already: cache    *)
(* files left by earlier renders, some of which cannot be removed, and a   *)
(* file the cleanup does not look for.                                     *)
(***************************************************************************)
SceneFile(name, locked) == [dir |-> SceneS, name |-> name, locked |-> locked]

SceneDirectories ==
    {{SceneFile(SceneS \o OctreeExt, TRUE), SceneFile(SceneS \o DumpExt, FALSE)},
     {SceneFile(SceneS \o OctreeExt, FALSE), SceneFile(SceneS \o DumpExt, TRUE),
      SceneFile(SceneS \o <<".", "l", "o", "g">>, FALSE)},
     {SceneFile(SceneS \o OctreeExt, FALSE), SceneFile(SceneS \o DumpExt, FALSE),
      SceneFile(<<".", "d", "u", "m", "p">>, FALSE)}}

CleanupInit ==
    /\ \E others \in SceneDirectories : QueueInitOn({}, others)
    /\ app.scene_name = SceneS
    /\ call = NoCall
    /\ reader = NoReader
    /\ video = NoVideo

CleanupSpec == CleanupInit /\ [][Next]_vars

(***************************************************************************)
(* The render queue with a user who goes on using the window while a batch *)
(* drains: the scene box, the Browse button of the worlds directory and    *)
(* the Scan Worlds button stay enabled, and their handlers do not look at  *)
(* currently_rendering.                                                    *)
(***************************************************************************)
\* changes made while one batch drains
MaxDrainEdits == 1

\* another worlds directory
DirV == <<"c", "\\", "v">>

\* what os.listdir returns for a scan made while a batch drains
DrainListings == {<<WorldX, WorldA>>}

DrainEditAllowed ==
    /\ app.currently_rendering
    /\ edits < MaxDrainEdits
    /\ edits' = edits + 1

\* scene_combo.currentTextChanged while a batch drains
SceneSelectedDraining ==
    /\ DrainEditAllowed
    /\ \E scene_name \in Scenes \cup {NoText}, load_ok \in BOOLEAN :
          /\ scene_name = NoText => load_ok
          /\ Apply(on_scene_selected(State, scene_name, load_ok))
    /\ UNCHANGED <<snapshot_files, timers, jobs>>
    /\ UNCHANGED <<call, reader, video>>

\* browse_world_dir while a batch drains
BrowseWorldDirDraining ==
    /\ DrainEditAllowed
    /\ \E listing \in DrainListings :
          Apply(update_render_button_state(
                    scan_worlds([State EXCEPT !.app.world_dir = DirV], listing)))
    /\ UNCHANGED <<snapshot_files, timers, jobs>>
    /\ UNCHANGED <<call, reader, video>>

\* the Scan Worlds button while a batch drains
ScanWorldsDraining ==
    /\ DrainEditAllowed
    /\ \E listing \in DrainListings : Apply(scan_worlds(State, listing))
    /\ UNCHANGED <<snapshot_files, timers, jobs>>
    /\ UNCHANGED <<call, reader, video>>

EditInit ==
    /\ QueueInit
    /\ app.scene_name = SceneS
    /\ call = NoCall
    /\ reader = NoReader
    /\ video = NoVideo

EditNext ==
    \/ Next
    \/ SceneSelectedDraining
    \/ BrowseWorldDirDraining
    \/ ScanWorldsDraining

EditSpec == EditInit /\ [][EditNext]_vars


(***************************************************************************)
(* ProcessOutputReader: one reader object and the process it reads.        *)
(*   reader.emitted   the lines the process wrote to its output, in order  *)
(*   reader.next      index of the next line readline will return          *)
(*   reader.eof       the process closed its output                        *)
(*   reader.running   self.running                                         *)
(*   reader.queue     self.queue (queue.Queue)                             *)
(*   reader.read_pc, reader.line   position of _read_output, line it holds *)
(*   reader.proc_pc, reader.item   position of _process_queue, item held   *)
(*   reader.posted    output_received emissions queued for the GUI thread  *)
(*   reader.forwarded what append_to_log received                          *)
(* A byte line is a sequence of one-character strings; BadByte stands for  *)
(* a byte that is not valid UTF-8.  A queued item is <<index of the line,  *)
(* text put for it>>.                                                      *)
(*   reader.next_job  the process of the next job of the batch was started *)
(***************************************************************************)
\* lines a process writes in one run of the reader
MaxLines == 3

BadByte == "<ff>"
RawLines == {<<"a", "\n">>, <<"b", " ", "\r", "\n">>, <<BadByte, "\n">>}

Whitespace == {" ", "\t", "\n", "\r"}

\* str.rstrip()
RECURSIVE RStrip(_)
RStrip(text) ==
    IF text # << >> /\ text[Len(text)] \in Whitespace
    THEN RStrip(SubSeq(text, 1, Len(text) - 1))
    ELSE text

DecodeErrorText == <<"[Error decoding output line]">>

\* line.decode('utf-8').rstrip(), or the text put on UnicodeDecodeError
DecodedLine(line) ==
    IF \E i \in 1..Len(line) : line[i] = BadByte THEN DecodeErrorText
    ELSE RStrip(line)

NewReader ==
    [pc |-> "reading", emitted |-> << >>, next |-> 1, eof |-> FALSE, running |-> TRUE,
     queue |-> << >>, read_pc |-> "readline", line |-> 0,
     proc_pc |-> "loop", item |-> << >>, posted |-> << >>, forwarded |-> << >>,
     next_job |-> FALSE]

\* queue.Queue(): no maxsize is given, and a maxsize of 0 is no limit
maxsize == 0

\* queue.Queue.put blocks while the queue is full
QueueFull(q) == maxsize > 0 /\ Len(q) >= maxsize

ReaderInit ==
    /\ QueueInit
    /\ app.chunky_launcher_path
    /\ app.scene_name # NoText
    /\ call = NoCall
    /\ video = NoVideo
    /\ reader = NewReader

\* the process writes a line
ProcessWrite ==
    /\ ~reader.eof
    /\ Len(reader.emitted) < MaxLines
    /\ \E line \in RawLines : reader' = [reader EXCEPT !.emitted = Append(@, line)]
    /\ UNCHANGED <<queue_vars, call, video>>

\* the process closes its output (it ends)
ProcessClose ==
    /\ ~reader.eof
    /\ reader' = [reader EXCEPT !.eof = TRUE]
    /\ UNCHANGED <<queue_vars, call, video>>

\* _read_output: readline returns the next line, or b'' at the end
ReadLine ==
    /\ reader.read_pc = "readline"
    /\ \/ /\ reader.next <= Len(reader.emitted)
          /\ reader' = [reader EXCEPT !.line = reader.next, !.next = @ + 1,
                                      !.read_pc = "check"]
       \/ /\ reader.next > Len(reader.emitted)
          /\ reader.eof
          /\ reader' = [reader EXCEPT !.read_pc = "done"]
    /\ UNCHANGED <<queue_vars, call, video>>

\* faulty variant: a line that cannot be decoded ends _read_output
ReadPutAbort ==
    /\ reader.read_pc = "check"
    /\ reader' = IF ~reader.running \/ DecodedLine(reader.emitted[reader.line]) = DecodeErrorText
                 THEN [reader EXCEPT !.read_pc = "done", !.line = 0]
                 ELSE [reader EXCEPT
                          !.queue = Append(@, <<reader.line,
                                                DecodedLine(reader.emitted[reader.line])>>),
                          !.line = 0,
                          !.read_pc = "readline"]
    /\ UNCHANGED <<queue_vars, call, video>>

\* _read_output: "if not self.running: break", else decode and put
ReadPut ==
    /\ reader.read_pc = "check"
    /\ reader.running => ~QueueFull(reader.queue)
    /\ reader' = IF ~reader.running
                 THEN [reader EXCEPT !.read_pc = "done", !.line = 0]
                 ELSE [reader EXCEPT
                          !.queue = Append(@, <<reader.line,
                                                DecodedLine(reader.emitted[reader.line])>>),
                          !.line = 0,
                          !.read_pc = "readline"]
    /\ UNCHANGED <<queue_vars, call, video>>

\* _process_queue: "while self.running"
ForwardLoop ==
    /\ reader.proc_pc = "loop"
    /\ reader' = [reader EXCEPT !.proc_pc = IF reader.running THEN "get" ELSE "done"]
    /\ UNCHANGED <<queue_vars, call, video>>

\* faulty variant: the forwarder takes the newest item of the queue
QueueGetNewest(q) == q[Len(q)]

\* queue.Queue.get: the oldest item
QueueGet(q) == Head(q)

\* _process_queue: self.queue.get(timeout=0.1), or queue.Empty and continue
ForwardGet ==
    /\ reader.proc_pc = "get"
    /\ reader' = IF reader.queue = << >>
                 THEN [reader EXCEPT !.proc_pc = "loop"]
                 ELSE [reader EXCEPT !.item = QueueGet(reader.queue),
                                     !.queue = Tail(@),
                                     !.proc_pc = "emit"]
    /\ UNCHANGED <<queue_vars, call, video>>

\* _process_queue: self.output_received.emit(line), queued for the GUI thread
ForwardEmit ==
    /\ reader.proc_pc = "emit"
    /\ reader' = [reader EXCEPT !.posted = Append(@, reader.item),
                                !.item = << >>,
                                !.proc_pc = "loop"]
    /\ UNCHANGED <<queue_vars, call, video>>

\* the GUI thread runs the slot of the oldest queued emission: append_to_log
DeliverLine ==
    /\ reader.posted # << >>
    /\ reader' = [reader EXCEPT !.forwarded = Append(@, Head(reader.posted)),
                                !.posted = Tail(@)]
    /\ UNCHANGED <<queue_vars, call, video>>

\* stop(), which the monitor thread calls once wait() has returned
ReaderStop ==
    /\ reader.running
    /\ reader.eof
    /\ reader' = [reader EXCEPT !.running = FALSE]
    /\ UNCHANGED <<queue_vars, call, video>>

\* after stop() the monitor thread arms the timer; the timer fires and
\* process_render_queue starts the process of the next job
LaunchNextJob ==
    /\ reader.pc = "reading"
    /\ reader.eof
    /\ ~reader.running
    /\ ~reader.next_job
    /\ reader' = [reader EXCEPT !.next_job = TRUE]
    /\ UNCHANGED <<queue_vars, call, video>>

ReaderNext ==
    \/ ProcessWrite
    \/ ProcessClose
    \/ ReadLine
    \/ ReadPut
    \/ ForwardLoop
    \/ ForwardGet
    \/ ForwardEmit
    \/ DeliverLine
    \/ ReaderStop
    \/ LaunchNextJob

ReaderSpec == ReaderInit /\ [][ReaderNext]_vars

(***************************************************************************)
(* Single calls of the name and file functions, on arguments drawn from    *)
(* bounded sets.  call.op names the function, call.arg its argument,       *)
(* call.done whether it has run, call.ret what it returned.                *)
(***************************************************************************)
\* world names handed to parse_date_from_world_name: an optional stem, an
\* optional dash, six digits YYMMDD, an optional tail
NameStems == {<< >>, <<"a">>, <<"a", "-">>}
NameDashes == {<<"-">>, << >>}
NameYears == {<<"2", "4">>, <<"2", "5">>}
NameMonths == {<<"0", "0">>, <<"0", "1">>, <<"0", "2">>, <<"1", "2">>, <<"1", "3">>}
NameDays == {<<"0", "0">>, <<"0", "1">>, <<"2", "9">>, <<"3", "0">>, <<"3", "1">>,
             <<"3", "2">>}
NameTails == {<< >>, <<"\n">>, <<"x">>, <<"7">>}

ParseNames ==
    {st \o da \o yy \o mm \o dd \o tl :
        st \in NameStems, da \in NameDashes, yy \in NameYears,
        mm \in NameMonths, dd \in NameDays, tl \in NameTails}

\* world directories a scan can meet
ScanNames ==
    {WorldA, WorldB, WorldX,
     <<"c", "-", "2", "5", "0", "2", "3", "1">>,
     <<"d", "-", "2", "5", "0", "1", "0", "1">>,
     <<"e", "-", "2", "5", "1", "3", "0", "1">>,
     <<"f", "-", "2", "4", "0", "2", "2", "9">>}

\* worlds in one directory listing
MaxListing == 3

\* os.listdir: the world directories, each once, in any order
ScanListings ==
    {l \in UNION {[1..k -> ScanNames] : k \in 0..MaxListing} :
        \A i, j \in DOMAIN l : i # j => l[i] # l[j]}

\* scene names, world names and sample counts of the rename calls
ScenePlus == <<"a", "+">>
CallScenes == {SceneS, ScenePlus}
CallWorlds == {WorldX, WorldB}
CallSpps == {<<"6", "4">>, <<"1", "2", "8">>}

\* names in a snapshots directory: as the renderer writes them, and as an
\* earlier rename left them
RenderedNames(scene) == {RenderedName(scene, n) : n \in CallSpps}

RenamedNames(scene) ==
    {scene \o <<"-">> \o n \o <<"-">> \o w \o PngExt : n \in CallSpps, w \in CallWorlds}

\* files in one snapshots directory
MaxFiles == 2

\* the files of a directory, oldest first
NameLists(scene) ==
    {l \in UNION {[1..k -> RenderedNames(scene) \cup RenamedNames(scene)] :
                      k \in 0..MaxFiles} :
        \A i, j \in DOMAIN l : i # j => l[i] # l[j]}

FilesOf(scene, l) == {[dir |-> scene, name |-> l[i], mtime |-> i] : i \in DOMAIN l}

RenameCalls ==
    UNION {{[op |-> "rename",
             arg |-> [files |-> FilesOf(scene, l), scene |-> scene, world |-> w,
                      move_ok |-> move_ok],
             done |-> FALSE, ret |-> {}, listed |-> FALSE, collected |-> << >>] :
                l \in NameLists(scene), w \in CallWorlds, move_ok \in BOOLEAN} :
           scene \in CallScenes}

\* scene configurations as json.load returns them: with a world that has a
\* path, a world without one, or no world at all
OldPaths == {NoText, <<"c", "\\", "o">>, <<"/", "o">>}

ConfigWorlds ==
    {[path |-> old, dimension |-> 0] : old \in OldPaths} \cup {[dimension |-> 0]}

Configs ==
    {[name |-> SceneS, sppTarget |-> 64, world |-> w] : w \in ConfigWorlds}
        \cup {[name |-> SceneS, sppTarget |-> 64]}

\* the worlds directories of the rewrite calls
RewriteDirs == {DirW, <<"c", ":", "/", "w">>, <<"c", "\\", "w", "\\">>}

\* the assignment of update_scene_json_with_path to
\* scene_json_data['world']['path']; a configuration without a world raises
\* KeyError and stays as it is
RewrittenConfig(config, world_path) ==
    IF "world" \notin DOMAIN config THEN config
    ELSE LET world == config.world
             normalized_path == ReplaceBackslash(world_path)
         IN [config EXCEPT !.world = [k \in DOMAIN world \cup {"path"} |->
                                         IF k = "path" THEN normalized_path
                                         ELSE world[k]]]

\* update_scene_json_with_path(os.path.join(world_dir, world)) on
\* scene_json_data = config, the JSON file holding config as loaded
RewriteCalls ==
    {[op |-> "rewrite",
      arg |-> [config |-> c, world_dir |-> d, world |-> w, write_ok |-> write_ok],
      done |-> FALSE, times |-> 0, data |-> c, file |-> c, ret |-> FALSE] :
         c \in Configs, d \in RewriteDirs, w \in CallWorlds, write_ok \in BOOLEAN}

ParseCalls ==
    {[op |-> "parse", arg |-> w, done |-> FALSE, ret |-> NoDate] : w \in ParseNames}

ScanCalls ==
    {[op |-> "scan", arg |-> l, done |-> FALSE, ret |-> << >>] : l \in ScanListings}

CallInit ==
    /\ QueueInit
    /\ app.chunky_launcher_path
    /\ app.scene_name # NoText
    /\ reader = NoReader
    /\ video = NoVideo
    /\ call \in ParseCalls \cup ScanCalls \cup RenameCalls \cup RewriteCalls

\* parse_date_from_world_name(call.arg)
CallParse ==
    /\ call.op = "parse"
    /\ ~call.done
    /\ call' = [call EXCEPT !.done = TRUE, !.ret = parse_date_from_world_name(call.arg)]
    /\ UNCHANGED <<queue_vars, reader, video>>

\* browse_world_dir on a directory whose listing is call.arg: world_dir is
\* set, scan_worlds fills world_list
CallScan ==
    /\ call.op = "scan"
    /\ ~call.done
    /\ LET scanned == update_render_button_state(
                          scan_worlds([State EXCEPT !.app.world_dir = DirW], call.arg))
       IN /\ Apply(scanned)
          /\ call' = [call EXCEPT !.done = TRUE, !.ret = scanned.app.world_list]
    /\ UNCHANGED <<snapshot_files, timers, jobs, edits, reader, video>>

\* rename_snapshot_with_world_name with scene_name = call.arg.scene and
\* current_world_name = call.arg.world, on a directory that holds call.arg.files
CallRename ==
    /\ call.op = "rename"
    /\ ~call.done
    /\ snapshot_files' = rename_snapshot_with_world_name(
                             call.arg.files, call.arg.scene, call.arg.world,
                             call.arg.move_ok)
    /\ call' = [call EXCEPT !.done = TRUE, !.ret = snapshot_files']
    /\ UNCHANGED <<app, ui, json_files, scene_files, procs, monitors, timers, enqueued,
                   batch, events, progress, jobs, edits, reader, video>>

\* sequences that hold each element of S once
Orderings(S) ==
    {l \in [1..Cardinality(S) -> S] : \A i, j \in DOMAIN l : i # j => l[i] # l[j]}

\* create_video_from_snapshots on the directory the rename left: the glob,
\* in the order it returns the files, the world names, the sort
CallCollect ==
    /\ call.op = "rename"
    /\ call.done
    /\ ~call.listed
    /\ \E found \in Orderings({f.name : f \in {g \in snapshot_files :
                         /\ g.dir = call.arg.scene
                         /\ GlobWorldSnapshot(call.arg.scene, g.name)}}) :
          call' = [call EXCEPT !.listed = TRUE,
                                !.collected = SortedSnapshots(call.arg.scene, found)]
    /\ UNCHANGED <<queue_vars, reader, video>>

\* update_scene_json_with_path, called once and then once more with the
\* same world: scene_json_data (data), the JSON file, the value returned
CallRewrite ==
    /\ call.op = "rewrite"
    /\ call.times < 2
    /\ LET world_path == PathJoin(OsSep, call.arg.world_dir, call.arg.world)
           assigned == RewrittenConfig(call.data, world_path)
           written == "world" \in DOMAIN call.data /\ call.arg.write_ok
       IN call' = [call EXCEPT !.done = TRUE,
                               !.times = @ + 1,
                               !.data = assigned,
                               !.file = IF written THEN assigned ELSE @,
                               !.ret = written]
    /\ UNCHANGED <<queue_vars, reader, video>>

CallNext ==
    \/ CallParse
    \/ CallScan
    \/ CallRename
    \/ CallCollect
    \/ CallRewrite

CallSpec == CallInit /\ [][CallNext]_vars

(***************************************************************************)
(* Video assembly: create_video_from_snapshots in the GUI thread, then     *)
(* create_video_thread.  snapshot_files, world_day_map and the loop index  *)
(* are locals of the thread, so one run does not see another; video is the *)
(* state of the latest run:                                                *)
(*   pc       "idle", "open" (thread started), "frames" (in the loop),     *)
(*            "done", "failed"                                             *)
(*   run      runs started so far                                          *)
(*   found    the base names glob returned, in its order                   *)
(*   files    snapshot_files handed to the thread                          *)
(*   i        1-based position of the loop in files                        *)
(*   world_day_map   the dictionary of the thread                          *)
(*   frames   the frames written, each with its size and the text drawn    *)
(*            on it                                                        *)
(*   resolved the worlds an earlier run had in its dictionary              *)
(*   message  the box the last click ended with                            *)
(*   large    the files whose image is Large, the others being Small       *)
(*   resize_needed, output_size   as the thread computed them              *)
(*   skipped  the positions of the files the loop could not read           *)
(*   error    the exception that ended the run, or "none"                  *)
(*   log      the closing lines the run has emitted                        *)
(***************************************************************************)
\* runs of one behaviour, and files in the snapshots directory
MaxRuns == 2
MaxSnapshots == 3

\* names met in the snapshots directory of scene s
VideoNames ==
    {<<"s", "-", "6", "4", "-", "x", ".", "p", "n", "g">>,
     <<"s", "-", "6", "4", "-">> \o WorldB \o PngExt,
     <<"s", "-", "1", "2", "8", "-">> \o WorldB \o PngExt,
     <<"s", "-", "6", "4", "-">> \o WorldA \o PngExt,
     <<"s", "-", "b", "-", "x", ".", "p", "n", "g">>,
     <<"s", "-", "6", "4", ".", "p", "n", "g">>}

VideoDirectories ==
    {{[dir |-> SceneS, name |-> n, mtime |-> 1] : n \in names} :
        names \in {d \in SUBSET VideoNames : Cardinality(d) <= MaxSnapshots}}

\* world.level['Data']['Time'] of the worlds read
Times == {47999, 120000}

\* what reading the world of a frame meets: the path does not exist, an
\* exception, or a Time value
LoadOutcomes ==
    {[result |-> "missing", time_value |-> -1], [result |-> "error", time_value |-> -1]}
        \cup {[result |-> "loaded", time_value |-> t] : t \in Times}

\* <<width, height>> of the images
Small == <<1280, 720>>
Large == <<3840, 2160>>
ImageSizes == {Small, Large}

NoSize == <<0, 0>>

IdleVideo(large) ==
    [pc |-> "idle", run |-> 0, found |-> << >>, files |-> << >>, i |-> 0,
     world_day_map |-> << >>, frames |-> << >>, resolved |-> {}, message |-> "none",
     large |-> large, resize_needed |-> FALSE, output_size |-> NoSize,
     skipped |-> {}, error |-> "none", log |-> << >>]

\* directories of up to MaxSnapshots files, all images of one size
VideoInit ==
    /\ \E d \in VideoDirectories : QueueInitWith(d)
    /\ app.chunky_launcher_path
    /\ call = NoCall
    /\ reader = NoReader
    /\ video = IdleVideo({})

\* create_video_btn.clicked: create_video_from_snapshots
CreateVideo ==
    /\ video.pc \in {"idle", "done", "failed"}
    /\ video.run < MaxRuns
    /\ LET names == {f.name : f \in {g \in snapshot_files :
                        /\ g.dir = app.scene_name
                        /\ GlobWorldSnapshot(app.scene_name, g.name)}}
       IN IF app.scene_name = NoText
          THEN video' = [video EXCEPT !.message = "Error"]
          ELSE IF names = {}
          THEN video' = [video EXCEPT !.message = "No Snapshots Found"]
          ELSE \/ video' = [video EXCEPT !.message = "none"]
               \/ \E found \in Orderings(names) :
                     LET sorted_snapshots == SortedSnapshots(app.scene_name, found) IN
                     video' = [video EXCEPT
                                  !.pc = "open",
                                  !.run = @ + 1,
                                  !.found = found,
                                  !.files = [k \in DOMAIN sorted_snapshots |->
                                                sorted_snapshots[k].snapshot],
                                  !.i = 0,
                                  !.frames = << >>,
                                  !.resolved = @ \cup DOMAIN video.world_day_map,
                                  !.message = "none",
                                  !.resize_needed = FALSE,
                                  !.output_size = NoSize,
                                  !.skipped = {},
                                  !.error = "none",
                                  !.log = << >>]
    /\ UNCHANGED <<queue_vars, call, reader>>

\* the height above which the frames are scaled down
max_height == 1080

\* (new_width, new_height) for a first image of size: scale_factor =
\* max_height / height, new_width = int(width * scale_factor)
ScaledSize(size) == <<(size[1] * max_height) \div size[2], max_height>>

\* first_img.shape / frame.shape: <<width, height>> of the image in name
NativeSize(v, name) == IF name \in v.large THEN Large ELSE Small

\* "except Exception as e": the line "Error creating video: ..." ends the run
VideoFail(v, error) ==
    [v EXCEPT !.pc = "failed", !.error = error,
              !.log = Append(@, "Error creating video")]

\* faulty variant: the failure is reported and the loop runs all the same
WriterRefusedIgnored(v) == [VideoFail(v, "writer") EXCEPT !.pc = "frames", !.i = 1]

\* "if not out.isOpened(): raise Exception(...)"
WriterRefused(v) == VideoFail(v, "writer")

\* create_video_thread up to the loop: the first image gives the frame size
\* (imread gives None for a file it cannot read, and None has no shape),
\* the writer is opened, the dictionary is created
VideoOpen ==
    /\ video.pc = "open"
    /\ \E first_ok \in BOOLEAN, writer_ok \in BOOLEAN :
          LET size == NativeSize(video, video.files[1])
              sized == [video EXCEPT
                           !.resize_needed = size[2] > max_height,
                           !.output_size = IF size[2] > max_height
                                           THEN ScaledSize(size) ELSE size]
          IN video' = IF ~first_ok THEN VideoFail(video, "first image")
                      ELSE IF ~writer_ok THEN WriterRefused(sized)
                      ELSE [sized EXCEPT !.pc = "frames", !.i = 1,
                                         !.world_day_map = << >>]
    /\ UNCHANGED <<queue_vars, call, reader>>

\* faulty variant: no world is ever found in the dictionary
InDayMapNever(world_day_map, world_name) == FALSE

\* "world_name in world_day_map"
InDayMap(world_day_map, world_name) == world_name \in DOMAIN world_day_map

\* "world_day_map[world_name] = day_value"
PutDay(world_day_map, world_name, day_value) ==
    [w \in DOMAIN world_day_map \cup {world_name} |->
        IF w = world_name THEN day_value ELSE world_day_map[w]]

\* a frame handed to out.write: its size, and the text drawn on it, "Day
\* {day_value} ({world_name})"; lookup tells where day_value came from: the
\* position of the file, the dictionary, or a world that was read, with the
\* Time it gave
Frame(v, world_name, day_value, lookup, time_value) ==
    [file |-> v.i, snapshot |-> v.files[v.i],
     size |-> IF v.resize_needed THEN v.output_size ELSE NativeSize(v, v.files[v.i]),
     world_name |-> world_name, day_value |-> day_value, lookup |-> lookup,
     time_value |-> time_value]

\* faulty variant: the default day counts the frames written
PositionDayWritten(v) == Len(v.frames) + 1

\* "day_value = i+1", i counting from 0 over snapshot_files
PositionDay(v) == v.i

\* one round of the loop over snapshot_files, for the file at position i;
\* mc is the module imported at the top of the file, so "mc is not None"
\* holds
VideoFrame ==
    /\ video.pc = "frames"
    /\ video.i <= Len(video.files)
    /\ LET i == video.i
           img_path == video.files[i]
           world_name == WorldGroup(app.scene_name, img_path)
       IN \E readable \in BOOLEAN, outcome \in LoadOutcomes :
          video' =
               IF ~readable THEN [video EXCEPT !.i = i + 1, !.skipped = @ \cup {i}]
               ELSE IF world_name = NoText
               THEN [video EXCEPT
                        !.i = i + 1,
                        !.frames = Append(@, Frame(video, <<"Unknown">>,
                                                   PositionDay(video), "position", -1))]
               ELSE IF InDayMap(video.world_day_map, world_name)
               THEN [video EXCEPT
                        !.i = i + 1,
                        !.frames = Append(@, Frame(video, world_name,
                                                   video.world_day_map[world_name],
                                                   "cached", -1))]
               ELSE IF outcome.result = "loaded"
               THEN LET days == outcome.time_value \div 24000 IN
                    [video EXCEPT
                        !.i = i + 1,
                        !.world_day_map = PutDay(@, world_name, days),
                        !.frames = Append(@, Frame(video, world_name, days,
                                                   "loaded", outcome.time_value))]
               ELSE [video EXCEPT
                        !.i = i + 1,
                        !.frames = Append(@, Frame(video, world_name,
                                                   PositionDay(video), "position", -1))]
    /\ UNCHANGED <<queue_vars, call, reader>>

\* the loop is over: out.release(), "Video created successfully: ..."
VideoRelease ==
    /\ video.pc = "frames"
    /\ video.i > Len(video.files)
    /\ video' = [video EXCEPT !.pc = "done",
                              !.log = Append(@, "Video created successfully")]
    /\ UNCHANGED <<queue_vars, call, reader>>

VideoNext ==
    \/ CreateVideo
    \/ VideoOpen
    \/ VideoFrame
    \/ VideoRelease

VideoSpec == VideoInit /\ [][VideoNext]_vars

\* the thread, once started, runs on to its end
VideoFairSpec ==
    /\ VideoSpec
    /\ WF_vars(VideoOpen)
    /\ WF_vars(VideoFrame)
    /\ WF_vars(VideoRelease)

\* directories of the snapshots of b-250101 and a-250103, the images of
\* either size
SizeNames ==
    {<<"s", "-", "6", "4", "-">> \o WorldB \o PngExt,
     <<"s", "-", "6", "4", "-">> \o WorldA \o PngExt}

SizeInit ==
    /\ \E names \in SUBSET SizeNames :
          QueueInitWith({[dir |-> SceneS, name |-> n, mtime |-> 1] : n \in names})
    /\ app.chunky_launcher_path
    /\ app.scene_name = SceneS
    /\ call = NoCall
    /\ reader = NoReader
    /\ video \in {IdleVideo(large) : large \in SUBSET SizeNames}

SizeSpec == SizeInit /\ [][VideoNext]_vars

(***************************************************************************)
(* The batch under fairness: every launched process exits, the monitor     *)
(* thread runs, and the single-shot timer it arms fires in the GUI thread. *)
(***************************************************************************)
FairSpec ==
    /\ Spec
    /\ WF_vars(ProcessExit)
    /\ WF_vars(MonitorStart)
    /\ WF_vars(MonitorWaitReturn)
    /\ WF_vars(MonitorRename)
    /\ WF_vars(MonitorDefer)
    /\ WF_vars(TimerFire)

(***************************************************************************)
(* Views of the state used by the properties.                              *)
(***************************************************************************)
IsProcessEv(e) == e.ev = "process"
IsSkipEv(e) == e.ev = "skip"
IsLaunchEv(e) == e.ev = "launch"
IsLaunchErrorEv(e) == e.ev = "launch_error"
IsCompleteEv(e) == e.ev = "complete"

WorldsOf(evs) == [i \in 1..Len(evs) |-> evs[i].world]

\* worlds whose configuration rewrite was attempted, in order
Attempted == WorldsOf(SelectSeq(events, IsProcessEv))
\* worlds skipped because the rewrite failed
Skipped == WorldsOf(SelectSeq(events, IsSkipEv))
\* worlds a process was launched for
Launched == WorldsOf(SelectSeq(events, IsLaunchEv))
\* worlds whose launch failed
LaunchFailed == WorldsOf(SelectSeq(events, IsLaunchErrorEv))
\* "Batch rendering complete!" lines
Completions == Len(SelectSeq(events, IsCompleteEv))

Running == {p \in DOMAIN procs : procs[p].state = "running"}

Draining == app.currently_rendering

Range(f) == {f[i] : i \in DOMAIN f}

IsPrefix(a, b) == Len(a) <= Len(b) /\ SubSeq(b, 1, Len(a)) = a

(***************************************************************************)
(* C1: in every reachable state at most one external render process is     *)
(* running.                                                                *)
(***************************************************************************)
C1_AtMostOneRunning == Cardinality(Running) <= 1

\* the second job of a batch is in flight and a third is still queued
C1_Witness ==
    /\ Cardinality(Running) = 1
    /\ Len(Launched) = 2
    /\ app.render_queue # << >>

(***************************************************************************)
(* C2: the worlds whose rewrite is attempted are a prefix of the enqueued  *)
(* list, the worlds still queued are the rest of it, the launches follow   *)
(* the same order, and while a process has not been waited for no later    *)
(* job has been touched: its launch is the last thing the handlers did.    *)
(***************************************************************************)
C2_FifoOrder ==
    /\ IsPrefix(Attempted, enqueued)
    /\ Draining => Attempted \o app.render_queue = enqueued
    /\ Launched = SelectSeq(Attempted, LAMBDA w : w \in Range(Launched))
    /\ \A p \in DOMAIN procs :
          /\ events # << >>
          /\ events[Len(events)] = Ev("launch", procs[p].world, p)
          /\ procs[p].world = Attempted[Len(Attempted)]

\* the three worlds of the scenario were rendered in the order enqueued
C2_Witness ==
    /\ enqueued = <<WorldB, WorldA, WorldX>>
    /\ Launched = enqueued
    /\ ~Draining

(***************************************************************************)
(* C3: a batch that was accepted is always drained: whatever the rewrites, *)
(* launches, exit codes and renames of its jobs do, the application gets   *)
(* back to the idle state with an empty queue.                             *)
(***************************************************************************)
C3_QueueDrains == Draining ~> (~Draining /\ app.render_queue = << >>)

\* a batch whose first job was skipped, whose second could not be launched
\* and whose third exited without writing a snapshot has been drained
C3_Witness ==
    /\ ~Draining
    /\ app.render_queue = << >>
    /\ Len(enqueued) = 3
    /\ Skipped = <<enqueued[1]>>
    /\ LaunchFailed = <<enqueued[2]>>
    /\ Launched = <<enqueued[3]>>
    /\ snapshot_files = {}

(***************************************************************************)
(* C4: a start requested while a batch drains changes nothing but the      *)
(* warning shown: the queue, the flag, the process in flight, the monitor  *)
(* thread, the pending timer and the files stay as they are, and no step   *)
(* taken while draining enlarges or replaces what was enqueued.            *)
(***************************************************************************)
C4_RejectedStart ==
    [][ /\ (Draining /\ StartRenderQueue) =>
             /\ ui'.warning = AlreadyRunning
             /\ UNCHANGED <<app, procs, monitors, timers, json_files, scene_files,
                            snapshot_files, enqueued, batch, events, progress>>
        /\ Draining =>
             /\ enqueued' = enqueued
             /\ Len(app'.render_queue) <= Len(app.render_queue)
             /\ app'.render_queue =
                   SubSeq(app.render_queue,
                          Len(app.render_queue) - Len(app'.render_queue) + 1,
                          Len(app.render_queue))
      ]_vars

\* a start was refused while a process was running and worlds were queued
C4_Witness ==
    /\ Draining
    /\ ui.warning = AlreadyRunning
    /\ ui.render_button
    /\ Running # {}
    /\ app.render_queue # << >>

(***************************************************************************)
(* C5: a job whose configuration rewrite fails is logged as skipped right  *)
(* after it was taken, nothing is cleaned up or launched for it, the same  *)
(* call goes on to the next job or to the end of the batch; the launches   *)
(* are the attempted worlds less the skipped and the unlaunchable ones, in *)
(* order.                                                                  *)
(***************************************************************************)
C5_SkipOnWriteFailure ==
    /\ \A i \in 1..Len(events) :
          events[i].ev = "skip" =>
             /\ i > 1
             /\ events[i - 1] = Ev("process", events[i].world, 0)
             /\ i < Len(events)
             /\ events[i + 1].ev \in {"process", "complete"}
             /\ events[i].world \notin Range(Launched)
             /\ \A p \in DOMAIN procs : procs[p].world # events[i].world
             /\ \A m \in monitors : m.world # events[i].world
    /\ Launched = SelectSeq(Attempted,
                            LAMBDA w : w \notin Range(Skipped) \cup Range(LaunchFailed))
    /\ Len(Skipped) = Cardinality(Range(Skipped))

\* three jobs, the rewrite failed for the second only: the first and the
\* third were launched, one skip was logged, the batch is complete
C5_Witness ==
    /\ Len(enqueued) = 3
    /\ Skipped = <<enqueued[2]>>
    /\ LaunchFailed = << >>
    /\ Launched = <<enqueued[1], enqueued[3]>>
    /\ Completions = 1
    /\ ~Draining

(***************************************************************************)
(* C6: a job whose process cannot be launched is reported once, gets no    *)
(* process, no monitor thread and hence no rename, is not taken again, and *)
(* the same call goes on to the next job or to the end of the batch.       *)
(***************************************************************************)
C6_LaunchFailure ==
    /\ \A i \in 1..Len(events) :
          events[i].ev = "launch_error" =>
             /\ i < Len(events)
             /\ events[i + 1].ev \in {"process", "complete"}
             /\ events[i].world \notin Range(Launched)
             /\ Cardinality({j \in 1..Len(Attempted) :
                                Attempted[j] = events[i].world}) = 1
    /\ \A m \in monitors : m.world \notin Range(LaunchFailed)
    /\ \A p \in DOMAIN procs : procs[p].world \notin Range(LaunchFailed)
    /\ Len(LaunchFailed) = Cardinality(Range(LaunchFailed))

\* the launch of the first job failed, the second was launched and the batch
\* was drained
C6_Witness ==
    /\ Len(enqueued) = 2
    /\ LaunchFailed = <<enqueued[1]>>
    /\ Launched = <<enqueued[2]>>
    /\ Skipped = << >>
    /\ ~Draining

(***************************************************************************)
(* C7: each accepted batch is completed exactly once: no completion is     *)
(* logged while it drains; once the application is idle again exactly one  *)
(* is, it is the last thing logged, and no process, monitor thread or      *)
(* timer is left that could run the completion a second time.              *)
(***************************************************************************)
C7_CompleteOnce ==
    /\ Draining => Completions = 0
    /\ (~Draining /\ enqueued # << >>) =>
          /\ Completions = 1
          /\ events[Len(events)].ev = "complete"
          /\ timers = 0
          /\ monitors = {}
          /\ DOMAIN procs = {}
    /\ (~Draining /\ enqueued = << >>) => events = << >>

\* the last of several batches, one of a single world, has been completed
C7_Witness ==
    /\ ~Draining
    /\ jobs = MaxJobs
    /\ Len(enqueued) = 1
    /\ Launched = enqueued
    /\ Completions = 1

(***************************************************************************)
(* C8: the monitor thread reaches the rename step only with exit status 0, *)
(* and when it arms the timer it has called the rename exactly if the exit *)
(* status was 0.                                                           *)
(***************************************************************************)
C8_RenameIffSuccess ==
    \A m \in monitors :
       /\ m.pc \in {"start", "wait"} => ~m.rename_called
       /\ m.pc = "rename" => m.rc = 0 /\ ~m.rename_called
       /\ m.pc = "defer" => (m.rename_called <=> m.rc = 0)

\* a process ended with a non-zero status after writing a snapshot the rename
\* would have picked; the monitor thread passed the rename step without calling it
C8_Witness ==
    \E m \in monitors :
       /\ m.pc = "defer"
       /\ m.rc # 0
       /\ ~m.rename_called
       /\ SnapshotCandidates(snapshot_files, app.scene_name) # {}

(***************************************************************************)
(* C9: the monitor thread never runs the next step of the queue itself.    *)
(* The step that ends the thread comes after the rename step, arms one     *)
(* timer and leaves the queue, the flag, the log, the progress and the     *)
(* processes alone; while a batch drains the queue is processed only by a  *)
(* step that consumes a timer, when no monitor thread is left.             *)
(***************************************************************************)
C9_DeferredAdvance ==
    [][ /\ Cardinality(monitors') < Cardinality(monitors) =>
             /\ \A m \in monitors \ monitors' : m.pc = "defer"
             /\ timers' = timers + 1
             /\ UNCHANGED <<app, events, progress, procs, snapshot_files>>
        /\ (Draining /\ events' # events) =>
             /\ timers' = timers - 1
             /\ monitors = {}
        /\ timers > 0 => monitors = {} /\ Running = {}
      ]_vars

\* the snapshot of the first job was renamed, the monitor thread is gone and
\* the timer that will process the rest of the queue is pending
C9_Witness ==
    /\ Draining
    /\ timers = 1
    /\ monitors = {}
    /\ app.render_queue # << >>
    /\ \E f \in snapshot_files :
          f.name = NewSnapshotName(app.scene_name, RenderedName(app.scene_name, <<"6", "4">>),
                                   app.current_world_name)

(***************************************************************************)
(* C10: the k-th job taken from the queue is announced with the progress   *)
(* pair (k - 1, number of worlds enqueued).  The pairs sent are kept in    *)
(* progress, the first being the (0, total) of the accepted start.         *)
(***************************************************************************)
C10_ProgressCounts ==
    \A k \in 2..Len(progress) : progress[k] = <<k - 2, Len(enqueued)>>

\* one of three scanned worlds was enqueued: its start is announced as (3, 3)
C10_FailingRun ==
    /\ Len(app.world_list) = 3
    /\ enqueued = <<WorldX>>
    /\ progress = << <<0, 1>>, <<3, 3>> >>

(***************************************************************************)
(* C11: the accepted start of n worlds announces the progress pair (0, n); *)
(* when the batch has been drained the progress bar stands at n of n.      *)
(***************************************************************************)
C11_InitialAndFinalProgress ==
    /\ enqueued # << >> =>
          /\ progress # << >>
          /\ progress[1] = <<0, Len(enqueued)>>
    /\ (~Draining /\ enqueued # << >>) =>
          /\ ui.progress_bar.value = Len(enqueued)
          /\ ui.progress_bar.maximum = Len(enqueued)

\* one of three scanned worlds was enqueued and rendered: the start was
\* announced as (0, 1), the drained batch leaves the bar at 3 of 3
C11_FailingRun ==
    /\ ~Draining
    /\ Len(app.world_list) = 3
    /\ enqueued = <<WorldA>>
    /\ Launched = enqueued
    /\ progress[1] = <<0, 1>>
    /\ ui.progress_bar = [value |-> 3, maximum |-> 3]

(***************************************************************************)
(* C12: what append_to_log received for one process is, line by line, what *)
(* the reader put for lines of the process taken in the order the process  *)
(* wrote them: the line indices are strictly increasing, so no line is     *)
(* forwarded twice or before an earlier one, and each text is the decoded, *)
(* right-stripped line (or the decoding-error text) of its index.          *)
(***************************************************************************)
C12_ForwardedInOrder ==
    reader.pc = "reading" =>
       /\ \A k \in 1..Len(reader.forwarded) :
             /\ reader.forwarded[k][1] \in 1..Len(reader.emitted)
             /\ reader.forwarded[k][2] = DecodedLine(reader.emitted[reader.forwarded[k][1]])
       /\ \A k \in 1..(Len(reader.forwarded) - 1) :
             reader.forwarded[k][1] < reader.forwarded[k + 1][1]

\* three lines were written, stop() came while the third was under way: the
\* first two were forwarded, both threads have ended
C12_Witness ==
    /\ reader.pc = "reading"
    /\ Len(reader.emitted) = 3
    /\ Len(reader.forwarded) = 2
    /\ reader.forwarded[1][1] = 1
    /\ reader.forwarded[2][1] = 2
    /\ ~reader.running
    /\ reader.read_pc = "done"
    /\ reader.proc_pc = "done"

(***************************************************************************)
(* The date token of a world name, as the statements about parsing read    *)
(* it: the name ends in a dash and six digits YYMMDD; a line feed ending   *)
(* the name after the digits is not counted, as "$" does not count it.     *)
(***************************************************************************)
NameBody(w) ==
    IF w # << >> /\ w[Len(w)] = "\n" THEN SubSeq(w, 1, Len(w) - 1) ELSE w

HasDateToken(w) ==
    LET b == NameBody(w) IN
    /\ Len(b) >= 7
    /\ b[Len(b) - 6] = "-"
    /\ \A i \in (Len(b) - 5)..Len(b) : b[i] \in Digits

TwoDigits(w, i) == 10 * DigitVal(w[i]) + DigitVal(w[i + 1])

TokenYear(w) == 2000 + TwoDigits(NameBody(w), Len(NameBody(w)) - 5)
TokenMonth(w) == TwoDigits(NameBody(w), Len(NameBody(w)) - 3)
TokenDay(w) == TwoDigits(NameBody(w), Len(NameBody(w)) - 1)

InRanges(w) == TokenMonth(w) \in 1..12 /\ TokenDay(w) \in 1..31

\* the day exists in the month (years 2000..2099: leap when divisible by 4)
InCalendar(y, m, d) ==
    \/ m \in {1, 3, 5, 7, 8, 10, 12} /\ d \in 1..31
    \/ m \in {4, 6, 9, 11} /\ d \in 1..30
    \/ m = 2 /\ d \in 1..28
    \/ m = 2 /\ d = 29 /\ y % 4 = 0

\* d is not after e
NotAfter(d, e) ==
    \/ d[1] < e[1]
    \/ d[1] = e[1] /\ d[2] < e[2]
    \/ d[1] = e[1] /\ d[2] = e[2] /\ d[3] <= e[3]

\* the position of w in the sequence q
PosIn(q, w) == CHOOSE i \in DOMAIN q : q[i] = w

(***************************************************************************)
(* C13 as stated: a name with a date token whose month is in 1..12 and     *)
(* whose day is in 1..31 parses to the date (2000 + YY, MM, DD), the two   *)
(* range checks being the only ones.                                       *)
(***************************************************************************)
C13_RangeChecksOnly ==
    (call.op = "parse" /\ call.done /\ HasDateToken(call.arg) /\ InRanges(call.arg)) =>
       call.ret = <<TokenYear(call.arg), TokenMonth(call.arg), TokenDay(call.arg)>>

(***************************************************************************)
(* C13 amended: such a name parses to the date (2000 + YY, MM, DD) when    *)
(* that day exists in the calendar, and to no date when it does not        *)
(* (February 30, a day 31 in a month of 30 days, February 29 outside a     *)
(* leap year).                                                             *)
(***************************************************************************)
C13_ParsedDate ==
    (call.op = "parse" /\ call.done /\ HasDateToken(call.arg) /\ InRanges(call.arg)) =>
       call.ret = IF InCalendar(TokenYear(call.arg), TokenMonth(call.arg),
                                TokenDay(call.arg))
                  THEN <<TokenYear(call.arg), TokenMonth(call.arg), TokenDay(call.arg)>>
                  ELSE NoDate

\* a-250231 was parsed: both ranges pass, there is no February 31, no date
C13_Witness ==
    /\ call.op = "parse"
    /\ call.done
    /\ call.arg = <<"a", "-", "2", "5", "0", "2", "3", "1">>
    /\ InRanges(call.arg)
    /\ call.ret = NoDate

(***************************************************************************)
(* C14: a name without a date token, or whose month is outside 1..12 or    *)
(* whose day is outside 1..31, parses to no date; a scan keeps such a      *)
(* world, once, in world_list, and nothing that has a date comes after it. *)
(***************************************************************************)
C14_UndatedRetained ==
    /\ (call.op = "parse" /\ call.done) =>
          ((~HasDateToken(call.arg) \/ ~InRanges(call.arg)) => call.ret = NoDate)
    /\ (call.op = "scan" /\ call.done) =>
          /\ app.world_list = call.ret
          /\ \A i \in DOMAIN call.arg :
                (~HasDateToken(call.arg[i]) \/ ~InRanges(call.arg[i])) =>
                   /\ Cardinality({k \in DOMAIN call.ret : call.ret[k] = call.arg[i]}) = 1
                   /\ \A j \in DOMAIN call.ret :
                         j > PosIn(call.ret, call.arg[i]) =>
                            ~(HasDateToken(call.ret[j]) /\ InRanges(call.ret[j])
                              /\ InCalendar(TokenYear(call.ret[j]), TokenMonth(call.ret[j]),
                                            TokenDay(call.ret[j])))

\* a scan met e-251301 (month 13) before b-250101: both are kept, the world
\* without a date after the dated one
C14_Witness ==
    /\ call.op = "scan"
    /\ call.done
    /\ call.arg = <<<<"e", "-", "2", "5", "1", "3", "0", "1">>, WorldB>>
    /\ app.world_list = <<WorldB, <<"e", "-", "2", "5", "1", "3", "0", "1">>>>

(***************************************************************************)
(* C15: world_list after a scan is a permutation of the worlds listed; the *)
(* worlds with a date come first, in non-decreasing date order; the worlds *)
(* without a date follow in the order of the listing.                      *)
(***************************************************************************)
C15_ScanOrder ==
    (call.op = "scan" /\ call.done) =>
       /\ app.world_list = call.ret
       /\ Len(call.ret) = Len(call.arg)
       /\ Range(call.ret) = Range(call.arg)
       /\ \A i, j \in DOMAIN call.ret :
             i < j =>
                LET a == call.ret[i]
                    b == call.ret[j]
                    dated(w) == /\ HasDateToken(w)
                                /\ InRanges(w)
                                /\ InCalendar(TokenYear(w), TokenMonth(w), TokenDay(w))
                    date(w) == <<TokenYear(w), TokenMonth(w), TokenDay(w)>>
                IN /\ dated(b) => dated(a)
                   /\ (dated(a) /\ dated(b)) => NotAfter(date(a), date(b))
                   /\ (~dated(a) /\ ~dated(b)) =>
                         PosIn(call.arg, a) < PosIn(call.arg, b)

\* a listing x, e-251301, b-250101: the dated world first, the two others
\* after it as listed
C15_Witness ==
    /\ call.op = "scan"
    /\ call.done
    /\ call.arg = <<WorldX, <<"e", "-", "2", "5", "1", "3", "0", "1">>, WorldB>>
    /\ call.ret = <<WorldB, WorldX, <<"e", "-", "2", "5", "1", "3", "0", "1">>>>

\* views of a rename call
RenameRan == call.op = "rename" /\ call.done

\* "<scene>-<digits>.png": the names the renderer writes
IsUnrenamed(scene, name) == \E n \in CallSpps : name = scene \o <<"-">> \o n \o PngExt

\* "<scene>-<digits>-<world>.png": the names an earlier rename left
IsRenamed(scene, name) ==
    \E n \in CallSpps, w \in CallWorlds :
       name = scene \o <<"-">> \o n \o <<"-">> \o w \o PngExt

(***************************************************************************)
(* C16: when the snapshots directory holds only files already named        *)
(* <scene>-<digits>-<world>.png, the rename step, for any world, leaves    *)
(* every file name as it was.                                              *)
(***************************************************************************)
C16_RenameIdempotent ==
    (/\ RenameRan
     /\ call.arg.files # {}
     /\ \A f \in call.arg.files : IsRenamed(call.arg.scene, f.name)) =>
        call.ret = call.arg.files

\* the directory held only s-64-x.png; the rename step for b-250101 ran,
\* and the file is now s-64-x-b-250101.png
C16_FailingRun ==
    /\ RenameRan
    /\ call.arg.scene = SceneS
    /\ call.arg.world = WorldB
    /\ {f.name : f \in call.arg.files} = {<<"s", "-", "6", "4", "-", "x", ".", "p", "n", "g">>}
    /\ {f.name : f \in snapshot_files} =
          {<<"s", "-", "6", "4", "-", "x", "-">> \o WorldB \o PngExt}

(***************************************************************************)
(* C17: of the files named <scene>-<digits>.png the rename step takes the  *)
(* one modified last, whatever its number, and renames that file to        *)
(* <scene>-<digits>-<world>.png with its own digits; no other file         *)
(* changes its name.                                                       *)
(***************************************************************************)
C17_RenameLatestUnrenamed ==
    (/\ RenameRan
     /\ call.arg.move_ok
     /\ \E f \in call.arg.files : IsUnrenamed(call.arg.scene, f.name)) =>
        \E f \in call.arg.files, n \in CallSpps :
           LET new_name == call.arg.scene \o <<"-">> \o n \o <<"-">>
                               \o call.arg.world \o PngExt
           IN /\ f.name = call.arg.scene \o <<"-">> \o n \o PngExt
              /\ \A g \in call.arg.files :
                    IsUnrenamed(call.arg.scene, g.name) => g.mtime <= f.mtime
              /\ call.ret = {g \in call.arg.files : g # f /\ g.name # new_name}
                               \cup {[f EXCEPT !.name = new_name]}

\* the directory held s-64.png and the newer s-128-x.png; the rename step
\* for b-250101 ran: s-64.png still has its name, and s-128-x.png has
\* become s-128-x-b-250101.png
C17_FailingRun ==
    /\ RenameRan
    /\ call.arg.scene = SceneS
    /\ call.arg.world = WorldB
    /\ call.arg.files =
          {[dir |-> SceneS, name |-> <<"s", "-", "6", "4", ".", "p", "n", "g">>, mtime |-> 1],
           [dir |-> SceneS, name |-> <<"s", "-", "1", "2", "8", "-", "x", ".", "p", "n", "g">>,
            mtime |-> 2]}
    /\ {f.name : f \in snapshot_files} =
          {<<"s", "-", "6", "4", ".", "p", "n", "g">>,
           <<"s", "-", "1", "2", "8", "-", "x", "-">> \o WorldB \o PngExt}

(***************************************************************************)
(* C18: for every scene J, number n and world W, the rename step turns     *)
(* J-n.png into J-n-W.png, and create_video_from_snapshots reads from that *)
(* name the world name W and, when W has a date, the date W parses to.     *)
(***************************************************************************)
C18_RenameParseRoundTrip ==
    (/\ RenameRan
     /\ call.arg.move_ok
     /\ call.listed
     /\ Cardinality(call.arg.files) = 1
     /\ \A f \in call.arg.files : IsUnrenamed(call.arg.scene, f.name)) =>
        \E n \in CallSpps :
           LET W == call.arg.world
               new_name == call.arg.scene \o <<"-">> \o n \o <<"-">> \o W \o PngExt
           IN /\ {f.name : f \in call.arg.files} = {call.arg.scene \o <<"-">> \o n \o PngExt}
              /\ {f.name : f \in call.ret} = {new_name}
              /\ Len(call.collected) = 1
              /\ call.collected[1].snapshot = new_name
              /\ call.collected[1].world_name = W
              /\ (HasDateToken(W) /\ InRanges(W)
                  /\ InCalendar(TokenYear(W), TokenMonth(W), TokenDay(W))) =>
                    call.collected[1].date = <<TokenYear(W), TokenMonth(W), TokenDay(W)>>

\* scene a+: a+-64.png was renamed for b-250101 to a+-64-b-250101.png, and
\* the video step read the world name "unknown" and no date from it
C18_FailingRun ==
    /\ RenameRan
    /\ call.listed
    /\ call.arg.scene = ScenePlus
    /\ call.arg.world = WorldB
    /\ {f.name : f \in call.arg.files} = {<<"a", "+", "-", "6", "4", ".", "p", "n", "g">>}
    /\ {f.name : f \in call.ret} = {<<"a", "+", "-", "6", "4", "-">> \o WorldB \o PngExt}
    /\ Len(call.collected) = 1
    /\ call.collected[1].world_name = UnknownWorld
    /\ call.collected[1].date = MinDate

\* views of a video run
VideoStarted == video.run > 0 /\ video.pc \in {"open", "frames", "done", "failed"}

\* name is the snapshot <scene>-<digits>-W.png of world W
NamedFor(name, W) ==
    \E n \in CallSpps : name = SceneS \o <<"-">> \o n \o <<"-">> \o W \o PngExt

HasCalendarDate(W) ==
    /\ HasDateToken(W)
    /\ InRanges(W)
    /\ InCalendar(TokenYear(W), TokenMonth(W), TokenDay(W))

DatedSnapshot(name) == \E W \in Worlds : NamedFor(name, W) /\ HasCalendarDate(W)

SnapshotDate(name) ==
    LET W == CHOOSE V \in Worlds : NamedFor(name, V) /\ HasCalendarDate(V)
    IN <<TokenYear(W), TokenMonth(W), TokenDay(W)>>

(***************************************************************************)
(* C19: the list of files a video is made from is a permutation of the     *)
(* snapshots found; every snapshot without a date stands before every      *)
(* snapshot with one; the snapshots without a date keep the order in which *)
(* they were found; the dated ones are in non-decreasing date order; and   *)
(* the frames are written in the order of that list.                       *)
(***************************************************************************)
C19_FrameOrder ==
    VideoStarted =>
       /\ Len(video.files) = Len(video.found)
       /\ Range(video.files) = Range(video.found)
       /\ \A i, j \in DOMAIN video.files :
             i < j =>
                LET a == video.files[i]
                    b == video.files[j]
                IN /\ DatedSnapshot(a) => DatedSnapshot(b)
                   /\ (DatedSnapshot(a) /\ DatedSnapshot(b)) =>
                         NotAfter(SnapshotDate(a), SnapshotDate(b))
                   /\ (~DatedSnapshot(a) /\ ~DatedSnapshot(b)) =>
                         PosIn(video.found, a) < PosIn(video.found, b)
       /\ \A k \in DOMAIN video.frames :
             /\ video.frames[k].file \in DOMAIN video.files
             /\ video.frames[k].snapshot = video.files[video.frames[k].file]
       /\ \A k, l \in DOMAIN video.frames :
             k < l => video.frames[k].file < video.frames[l].file

\* glob found s-64-a-250103.png, s-b-x.png, s-64-b-250101.png in that order;
\* the video has three frames: s-b-x.png, then 1 January, then 3 January
C19_Witness ==
    /\ video.pc = "done"
    /\ video.found = <<<<"s", "-", "6", "4", "-">> \o WorldA \o PngExt,
                       <<"s", "-", "b", "-", "x", ".", "p", "n", "g">>,
                       <<"s", "-", "6", "4", "-">> \o WorldB \o PngExt>>
    /\ Len(video.frames) = 3
    /\ video.frames[1].snapshot = <<"s", "-", "b", "-", "x", ".", "p", "n", "g">>
    /\ video.frames[2].snapshot = <<"s", "-", "6", "4", "-">> \o WorldB \o PngExt
    /\ video.frames[3].snapshot = <<"s", "-", "6", "4", "-">> \o WorldA \o PngExt

(***************************************************************************)
(* C20: within one run the day of a world is read from the world at most   *)
(* once: once a frame of the run has a day that was read or reused, every  *)
(* later frame of the same world reuses that day; a day that was read is   *)
(* Time divided by 24000, rounded down; a reused day was read earlier in   *)
(* the same run, and the dictionary is empty when the loop of a run        *)
(* begins.                                                                 *)
(***************************************************************************)
C20_DayCachedPerRun ==
    /\ \A k, l \in DOMAIN video.frames :
          (/\ k < l
           /\ video.frames[k].world_name = video.frames[l].world_name
           /\ video.frames[k].lookup \in {"loaded", "cached"}) =>
              /\ video.frames[l].lookup = "cached"
              /\ video.frames[l].day_value = video.frames[k].day_value
    /\ \A k \in DOMAIN video.frames :
          /\ video.frames[k].lookup = "loaded" =>
                /\ video.frames[k].day_value * 24000 <= video.frames[k].time_value
                /\ video.frames[k].time_value < (video.frames[k].day_value + 1) * 24000
          /\ video.frames[k].lookup = "cached" =>
                \E h \in 1..(k - 1) :
                   /\ video.frames[h].world_name = video.frames[k].world_name
                   /\ video.frames[h].lookup = "loaded"
    /\ (video.pc = "frames" /\ video.i = 1) => DOMAIN video.world_day_map = {}

\* a second run, after a run that had read b-250101: two frames of
\* b-250101 and one of a-250103; b-250101 is read again (Time 47999) and
\* reused, a-250103 is read (Time 120000): Day 1, Day 1, Day 5
C20_Witness ==
    /\ video.pc = "done"
    /\ video.run = 2
    /\ WorldB \in video.resolved
    /\ Len(video.frames) = 3
    /\ video.frames[1].world_name = WorldB
    /\ video.frames[2].world_name = WorldB
    /\ video.frames[3].world_name = WorldA
    /\ <<video.frames[1].lookup, video.frames[2].lookup, video.frames[3].lookup>>
          = <<"loaded", "cached", "loaded">>
    /\ <<video.frames[1].time_value, video.frames[3].time_value>> = <<47999, 120000>>
    /\ <<video.frames[1].day_value, video.frames[2].day_value, video.frames[3].day_value>>
          = <<1, 1, 5>>

(***************************************************************************)
(* C21: every frame written in a run has the size fixed from the first     *)
(* image: the size of that image, or 1920 x 1080 when it is 3840 x 2160;   *)
(* a later image of another size is resized to it, also when the first     *)
(* image was not scaled down.                                              *)
(***************************************************************************)
C21_UniformFrameSize ==
    (VideoStarted /\ video.pc \in {"frames", "done"}) =>
       LET fixed == IF video.files[1] \in video.large THEN <<1920, 1080>>
                    ELSE <<1280, 720>>
       IN /\ video.output_size = fixed
          /\ \A k \in DOMAIN video.frames : video.frames[k].size = fixed

\* the first image is 1280 x 720 and is not scaled; the second is
\* 3840 x 2160 and is written as it is to the writer opened for 1280 x 720
C21_FailingRun ==
    /\ video.pc = "done"
    /\ ~video.resize_needed
    /\ video.output_size = Small
    /\ Len(video.frames) = 2
    /\ video.frames[1].size = Small
    /\ video.frames[2].size = Large

\* the positions of the files whose frames were written, in the order written
WrittenFiles == [k \in DOMAIN video.frames |-> video.frames[k].file]

RECURSIVE Ascending(_)
\* the members of a set of numbers, smallest first
Ascending(S) ==
    IF S = {} THEN << >>
    ELSE LET m == CHOOSE x \in S : \A y \in S : x <= y
         IN <<m>> \o Ascending(S \ {m})

(***************************************************************************)
(* C22: a file that cannot be read, at any position of the sorted list,    *)
(* the first included, costs only its own frame: a run whose writer        *)
(* opened ends with the line of success, and the frames written are those  *)
(* of all the files that could be read, in the order of the list.          *)
(***************************************************************************)
C22_UnreadableFrameSkipped ==
    (video.pc \in {"done", "failed"} /\ video.error # "writer") =>
       /\ video.pc = "done"
       /\ video.log = <<"Video created successfully">>
       /\ WrittenFiles = Ascending(DOMAIN video.files \ video.skipped)

\* three files were handed to the thread; the first could not be read, and
\* the run ended with "Error creating video" before any frame was written
C22_FailingRun ==
    /\ video.pc = "failed"
    /\ video.error = "first image"
    /\ Len(video.files) = 3
    /\ video.frames = << >>
    /\ video.log = <<"Error creating video">>

\* the closing lines of a run agree with where the run stands
ClosingLines ==
    /\ Len(video.log) <= 1
    /\ video.pc \in {"open", "frames"} => video.log = << >>
    /\ video.pc = "done" => video.log = <<"Video created successfully">>
    /\ video.pc = "failed" => video.log = <<"Error creating video">>
    /\ video.error = "writer" =>
          /\ video.pc = "failed"
          /\ video.i = 0
          /\ video.frames = << >>
          /\ video.skipped = {}

(***************************************************************************)
(* C23: a run of the video thread emits one closing line, of success or    *)
(* of failure: never both, and, once the thread has run to its end, never  *)
(* none; when the writer does not open, the run ends with the line of      *)
(* failure and no file has been taken up by the loop.                      *)
(***************************************************************************)
C23_OneClosingLine ==
    /\ []ClosingLines
    /\ (video.pc = "open") ~> (video.pc \in {"done", "failed"} /\ Len(video.log) = 1)

\* three files were handed to the thread and the writer did not open
C23_Witness ==
    /\ video.pc = "failed"
    /\ video.error = "writer"
    /\ Len(video.files) = 3
    /\ video.log = <<"Error creating video">>

(***************************************************************************)
(* C28: a frame whose day could not be read from its world, and was not    *)
(* in the dictionary, shows the position of its file in the sorted list,   *)
(* counted from 1 and counting the files skipped as unreadable; that       *)
(* number is not put into the dictionary, which holds only days read from  *)
(* a world.                                                                *)
(***************************************************************************)
C28_FallbackDay ==
    (VideoStarted /\ video.pc \in {"frames", "done"}) =>
       /\ \A k \in DOMAIN video.frames :
             video.frames[k].lookup = "position" =>
                LET day == video.frames[k].day_value IN
                /\ day \in DOMAIN video.files
                /\ video.files[day] = video.frames[k].snapshot
                /\ day = k + Cardinality({p \in video.skipped : p < day})
       /\ \A w \in DOMAIN video.world_day_map :
             \E k \in DOMAIN video.frames :
                /\ video.frames[k].world_name = w
                /\ video.frames[k].lookup = "loaded"
                /\ video.frames[k].day_value = video.world_day_map[w]

\* the first of three files was skipped; the second, of b-250101, could not
\* be resolved and shows Day 2; the third, of a-250103, was read; the
\* dictionary holds a-250103 only
C28_Witness ==
    /\ video.pc = "done"
    /\ Len(video.files) = 3
    /\ video.skipped = {1}
    /\ Len(video.frames) = 2
    /\ video.frames[1].world_name = WorldB
    /\ video.frames[1].lookup = "position"
    /\ video.frames[1].day_value = 2
    /\ video.frames[2].lookup = "loaded"
    /\ DOMAIN video.world_day_map = {WorldA}

(***************************************************************************)
(* C29: as long as stop() has not been called, the lines the reader has    *)
(* taken from the process are, one item each and in the order written, in  *)
(* what was forwarded followed by what is still under way; the item of a   *)
(* line that cannot be decoded is the decoding-error text, once, at the    *)
(* place of the line; and the reading loop has ended only at the end of    *)
(* the output.                                                             *)
(***************************************************************************)
\* the items from append_to_log back to the queue of the reader
ReaderStream ==
    reader.forwarded \o reader.posted
        \o (IF reader.proc_pc = "emit" THEN <<reader.item>> ELSE << >>)
        \o reader.queue

Undecodable(line) == \E i \in 1..Len(line) : line[i] = BadByte

C29_PlaceholderInPlace ==
    (reader.pc = "reading" /\ reader.running) =>
       /\ Len(ReaderStream) =
             (reader.next - 1) - (IF reader.read_pc = "check" THEN 1 ELSE 0)
       /\ \A k \in 1..Len(ReaderStream) :
             /\ ReaderStream[k][1] = k
             /\ Undecodable(reader.emitted[k]) => ReaderStream[k][2] = DecodeErrorText
             /\ ~Undecodable(reader.emitted[k]) => ReaderStream[k][2] # DecodeErrorText
       /\ reader.read_pc = "done" => (reader.eof /\ reader.next > Len(reader.emitted))

\* the first of three lines could not be decoded: the log received the
\* decoding-error text for it, then the two lines that followed
C29_Witness ==
    /\ reader.pc = "reading"
    /\ reader.running
    /\ Len(reader.emitted) = 3
    /\ Undecodable(reader.emitted[1])
    /\ ~Undecodable(reader.emitted[2])
    /\ ~Undecodable(reader.emitted[3])
    /\ Len(reader.forwarded) = 3
    /\ reader.forwarded[1] = <<1, DecodeErrorText>>
    /\ reader.forwarded[2] = <<2, RStrip(reader.emitted[2])>>
    /\ reader.forwarded[3] = <<3, RStrip(reader.emitted[3])>>

(***************************************************************************)
(* C27: a rename step that found no snapshots directory, no snapshot file, *)
(* or whose move failed only logs a line: the step changes no file and     *)
(* nothing of the queue, the thread goes on to arm the timer, and from     *)
(* there the timer fires: the batch is completed, or the process of a      *)
(* later job has been launched with its monitor thread.                    *)
(***************************************************************************)
RenameFailures ==
    {"No snapshots directory found", "No snapshot files found", "Error renaming snapshot"}

\* the thread has passed a rename step that logged a failure
RenameFailed(m) ==
    /\ m.pc = "defer"
    /\ m.rename_called
    /\ m.log[Len(m.log)].line \in RenameFailures

C27_RenameFailureIgnored ==
    /\ [][ \A m \in monitors' :
              (m \notin monitors /\ RenameFailed(m)) =>
                 UNCHANGED <<snapshot_files, json_files, scene_files, app, procs, timers, events>>
         ]_vars
    /\ [][ ((\E m \in monitors : RenameFailed(m)) /\ monitors' # monitors) =>
              (monitors' = {} /\ timers' = timers + 1)
         ]_vars
    /\ (\E m \in monitors : RenameFailed(m))
          ~> /\ timers = 0
             /\ \/ ~app.currently_rendering
                \/ \E m \in monitors : m.pc = "start"

\* the move of the snapshot the first job wrote failed: the file has kept its
\* name, the thread is about to arm the timer and a job is still queued
C27_Witness ==
    /\ app.render_queue # << >>
    /\ \E m \in monitors :
          /\ RenameFailed(m)
          /\ m.log[Len(m.log)].line = "Error renaming snapshot"
    /\ snapshot_files # {}
    /\ \A f \in snapshot_files : f.name = RenderedName(app.scene_name, <<"6", "4">>)

(***************************************************************************)
(* C24: every line a monitor thread sends to the log goes through the      *)
(* signal log_update_signal, whose slot runs in the GUI thread; the thread *)
(* never calls append_to_log itself.                                       *)
(***************************************************************************)
C24_WorkerLinesBySignal ==
    \A m \in monitors :
       \A k \in DOMAIN m.log : m.log[k].via = "log_update_signal"

\* a process ended with status 0: its monitor thread emitted the completion
\* line by the signal, then renamed the snapshot and called append_to_log
C24_FailingRun ==
    \E m \in monitors :
       /\ m.pc = "defer"
       /\ m.rc = 0
       /\ m.log = <<Emitted("Render process completed"), Called("Renamed snapshot to")>>

(***************************************************************************)
(* C26: every launch of a batch comes right after the cleanup of its job,  *)
(* which comes right after the rewrite of the JSON file, which comes right *)
(* after the job was taken from the queue.  While the process launched is  *)
(* running, the scene directory holds no *.octree2 or *.dump file when the *)
(* cleanup completed, and one that cannot be removed when it failed.  A    *)
(* cleanup that failed is followed by the launch of its job all the same,  *)
(* and a batch that drains always has a process, a monitor thread or a     *)
(* timer that takes it further.                                            *)
(***************************************************************************)
CleanupEvs == {"cleanup", "cleanup_error"}

AllCacheFiles(scene) ==
    CacheFiles(scene_files, scene, OctreeExt) \cup CacheFiles(scene_files, scene, DumpExt)

C26_RewriteCleanupLaunch ==
    /\ \A i \in DOMAIN events :
          events[i].ev \in {"launch", "launch_error"} =>
             /\ i > 3
             /\ events[i - 1].ev \in CleanupEvs
             /\ events[i - 1].world = events[i].world
             /\ events[i - 2].ev = "rewrite"
             /\ events[i - 2].world =
                   ReplaceBackslash(PathJoin(OsSep, app.world_dir, events[i].world))
             /\ events[i - 3] = Ev("process", events[i].world, 0)
    /\ \A i \in DOMAIN events :
          events[i].ev \in CleanupEvs =>
             /\ i < Len(events)
             /\ events[i + 1].ev \in {"launch", "launch_error"}
             /\ events[i + 1].world = events[i].world
    /\ \A p \in DOMAIN procs :
          (procs[p].state = "running" /\ events[Len(events)].ev = "launch") =>
             /\ events[Len(events) - 1].ev = "cleanup" =>
                   AllCacheFiles(procs[p].scene) = {}
             /\ events[Len(events) - 1].ev = "cleanup_error" =>
                   \E f \in AllCacheFiles(procs[p].scene) : f.locked
    /\ Draining => (DOMAIN procs # {} \/ monitors # {} \/ timers > 0)

\* s.dump cannot be removed: the cleanup of the first job removed s.octree2
\* and failed, the cleanup of the second job removed the s.octree2 the first
\* render wrote and failed again; the process of the second job is running
\* and s.log is where it was
C26_Witness ==
    /\ Len(Launched) = 2
    /\ Len(SelectSeq(events, LAMBDA e : e.ev = "cleanup_error")) = 2
    /\ events[Len(events)].ev = "launch"
    /\ \E p \in DOMAIN procs : procs[p].state = "running"
    /\ \E f \in scene_files : f.name = SceneS \o DumpExt /\ f.locked
    /\ CacheFiles(scene_files, SceneS, OctreeExt) = {}
    /\ \E f \in scene_files : f.name = SceneS \o <<".", "l", "o", "g">>

(***************************************************************************)
(* C25: a rewrite that succeeds leaves in the JSON file the configuration  *)
(* that was loaded with world.path set to the path of the world, in which  *)
(* every backslash has become a slash and nothing else has changed; the    *)
(* other fields of the configuration and of its world are those loaded.  A *)
(* rewrite that fails leaves the file as it was.  A second rewrite for the *)
(* same world leaves what the first left.                                  *)
(***************************************************************************)
\* t is s with "/" for each "\"
Normalized(s, t) ==
    /\ Len(t) = Len(s)
    /\ \A i \in 1..Len(s) : t[i] = IF s[i] = "\\" THEN "/" ELSE s[i]

\* configuration b is configuration a but for world.path
SameButWorldPath(a, b) ==
    /\ DOMAIN b = DOMAIN a
    /\ \A k \in DOMAIN a \ {"world"} : b[k] = a[k]
    /\ DOMAIN b.world = DOMAIN a.world \cup {"path"}
    /\ \A k \in DOMAIN a.world \ {"path"} : b.world[k] = a.world[k]

C25_RewriteOnlyWorldPath ==
    (call.op = "rewrite" /\ call.done) =>
       LET world_path == PathJoin(OsSep, call.arg.world_dir, call.arg.world) IN
       /\ call.ret =>
             /\ SameButWorldPath(call.arg.config, call.file)
             /\ Normalized(world_path, call.file.world.path)
             /\ call.data = call.file
       /\ ~call.ret => call.file = call.arg.config
       /\ call.ret <=> ("world" \in DOMAIN call.arg.config /\ call.arg.write_ok)

\* the world x of the directory c\w, rewritten twice into a configuration
\* whose world had the path c\o: the file holds c/w/x
C25_Witness ==
    /\ call.op = "rewrite"
    /\ call.times = 2
    /\ call.ret
    /\ call.arg.world_dir = DirW
    /\ call.arg.world = WorldX
    /\ call.arg.config.world = [path |-> <<"c", "\\", "o">>, dimension |-> 0]
    /\ call.file.world = [path |-> <<"c", "/", "w", "/", "x">>, dimension |-> 0]

(***************************************************************************)
(* C30: every job of a batch is rewritten, launched and renamed for the    *)
(* scene and the worlds directory that were selected when the batch was    *)
(* started: each rewrite of the batch writes the path of its world under   *)
(* that directory, each process of the batch renders that scene, and a     *)
(* monitor thread at its rename step renames in that scene.                *)
(***************************************************************************)
C30_JobsKeepSceneAndDir ==
    /\ \A i \in DOMAIN events :
          events[i].ev = "rewrite" =>
             events[i].world =
                ReplaceBackslash(PathJoin(OsSep, batch.world_dir, events[i - 1].world))
    /\ \A p \in DOMAIN procs : procs[p].scene = batch.scene_name
    /\ \A m \in monitors : m.pc = "rename" => app.scene_name = batch.scene_name
    /\ \A i \in DOMAIN events :
          events[i].ev = "skip" => app.scene_name = batch.scene_name

\* a batch of two worlds was started on c\w; while the first rendered, the
\* worlds directory became c\v: the second job was rewritten to c/v/<world>
C30_FailingRun ==
    /\ batch.world_dir = DirW
    /\ app.world_dir = DirV
    /\ Len(enqueued) = 2
    /\ Len(Launched) = 2
    /\ events[Len(events)].ev = "launch"
    /\ events[Len(events) - 2] =
          Ev("rewrite", <<"c", "/", "v", "/">> \o enqueued[2], 0)

(***************************************************************************)
(* C31: a rename step that moved a file leaves the directory with as many  *)
(* files as before: one file has a name the directory did not hold, its    *)
(* old name is gone, and every other file is there as it was.              *)
(***************************************************************************)
C31_RenamedNotDuplicated ==
    (/\ RenameRan
     /\ call.arg.move_ok
     /\ SnapshotCandidates(call.arg.files, call.arg.scene) # {}) =>
        /\ Cardinality(call.ret) = Cardinality(call.arg.files)
        /\ \E f \in call.arg.files, g \in call.ret :
              /\ g.name \notin {h.name : h \in call.arg.files}
              /\ f.name \notin {h.name : h \in call.ret}
              /\ g.mtime = f.mtime
              /\ call.ret \ {g} = call.arg.files \ {f}

\* the directory held s-64-x.png and the newer s-64.png; the rename step
\* for x moved s-64.png onto s-64-x.png: one file is left
C31_FailingRun ==
    /\ RenameRan
    /\ call.arg.move_ok
    /\ call.arg.scene = SceneS
    /\ call.arg.world = WorldX
    /\ call.arg.files =
          {[dir |-> SceneS, name |-> <<"s", "-", "6", "4", "-", "x">> \o PngExt, mtime |-> 1],
           [dir |-> SceneS, name |-> <<"s", "-", "6", "4">> \o PngExt, mtime |-> 2]}
    /\ call.ret =
          {[dir |-> SceneS, name |-> <<"s", "-", "6", "4", "-", "x">> \o PngExt, mtime |-> 2]}


(***************************************************************************)
(* C32: once the process of a job has ended and stop() was called, the     *)
(* forwarder of that job emits no further line after the process of the    *)
(* next job was started: from then on the emissions waiting for the GUI    *)
(* thread only get fewer.                                                  *)
(***************************************************************************)
C32_NoForwardingAfterNextLaunch ==
    [][(reader.pc = "reading" /\ reader.next_job) =>
          Len(reader.posted') <= Len(reader.posted)]_vars

\* the process of the next job was started while the forwarder of this job
\* holds a line it took from the queue before stop(), and emits it next
C32_FailingRun ==
    /\ reader.pc = "reading"
    /\ reader.next_job
    /\ reader.proc_pc = "emit"
    /\ reader.read_pc = "done"

(***************************************************************************)
(* C33: the queue between _read_output and _process_queue never holds more *)
(* than a fixed capacity; the capacity tried is one below the number of    *)
(* lines a process writes.                                                 *)
(***************************************************************************)
C33_QueueBounded ==
    reader.pc = "reading" => Len(reader.queue) <= MaxLines - 1

\* the forwarder has not taken anything yet and every line the process
\* wrote is in the queue
C33_FailingRun ==
    /\ reader.pc = "reading"
    /\ Len(reader.emitted) = MaxLines
    /\ Len(reader.queue) = MaxLines
    /\ reader.forwarded = << >>
    /\ reader.posted = << >>

(***************************************************************************)
(* C35: when the process has ended, stop() was called, both threads have   *)
(* ended and the GUI thread has run every queued emission, append_to_log   *)
(* has received every line the process wrote.                              *)
(***************************************************************************)
C35_NoLineLost ==
    (/\ reader.pc = "reading"
     /\ reader.eof
     /\ ~reader.running
     /\ reader.read_pc = "done"
     /\ reader.proc_pc = "done"
     /\ reader.posted = << >>) =>
        Len(reader.forwarded) = Len(reader.emitted)

\* two lines were written before the process ended; stop() came when the
\* first was in the queue and the second still in the pipe: both threads
\* ended, nothing was forwarded, the first line is left in the queue
C35_FailingRun ==
    /\ reader.pc = "reading"
    /\ reader.eof
    /\ ~reader.running
    /\ reader.read_pc = "done"
    /\ reader.proc_pc = "done"
    /\ Len(reader.emitted) = 2
    /\ Len(reader.queue) = 1
    /\ reader.next = 3
    /\ reader.forwarded = << >>
    /\ reader.posted = << >>


(***************************************************************************)
(* Requests that find nothing to do: the user sets the application up,     *)
(* clicks Start Render with no world selected, and asks for a video from   *)
(* snapshots directories of at most one file.                              *)
(***************************************************************************)
RequestDirectories == {d \in VideoDirectories : Cardinality(d) <= 1}

RequestInit ==
    /\ \E d \in RequestDirectories : QueueInitWith(d)
    /\ call = NoCall
    /\ reader = NoReader
    /\ video = IdleVideo({})

\* render_button.clicked with no item of the list selected: start_render_queue
StartNothingSelected ==
    /\ ui.render_button
    /\ \E r \in {start_render_queue(State, << >>, NoText, << >>)} : Apply(r)
    /\ UNCHANGED <<snapshot_files, timers, jobs, edits>>
    /\ UNCHANGED <<call, reader, video>>

RequestNext ==
    \/ BrowseChunkyLauncher
    \/ OnSceneSelected
    \/ ScanWorlds
    \/ BrowseWorldDir
    \/ StartNothingSelected
    \/ VideoNext

RequestSpec == RequestInit /\ [][RequestNext]_vars

\* no batch has begun: nothing queued, the flag clear, no progress emitted,
\* no process, monitor thread or timer
NothingBegun ==
    /\ ~app.currently_rendering
    /\ app.render_queue = << >>
    /\ enqueued = << >>
    /\ events = << >>
    /\ progress = << >>
    /\ procs = [p \in {} |-> 0]
    /\ monitors = {}
    /\ timers = 0

\* the snapshots glob of create_video_from_snapshots finds a file
SnapshotsMatch ==
    \E f \in snapshot_files :
        f.dir = app.scene_name /\ GlobWorldSnapshot(app.scene_name, f.name)

(***************************************************************************)
(* C34: Start Render with nothing selected puts up only the warning "No    *)
(* worlds selected for rendering": the application, the progress emitted,  *)
(* the processes and the files are as before and no batch has begun.  A    *)
(* video request that finds no snapshot with a world name puts up only "No *)
(* Snapshots Found", and a video thread is started only by a request that  *)
(* found such a snapshot.                                                  *)
(***************************************************************************)
C34_EmptyRequestsRejected ==
    [][/\ NothingBegun'
       /\ ui.warning' # ui.warning =>
             /\ ui.warning' = NoSelection
             /\ ui' = [ui EXCEPT !.warning = NoSelection]
             /\ UNCHANGED <<app, json_files, scene_files, snapshot_files, jobs,
                            batch, video>>
       /\ (video.message' = "No Snapshots Found" /\ video.message # "No Snapshots Found") =>
             /\ ~SnapshotsMatch
             /\ video' = [video EXCEPT !.message = "No Snapshots Found"]
             /\ UNCHANGED queue_vars
       /\ (video.pc \in {"idle", "done", "failed"} /\ video.pc' # video.pc) =>
             /\ SnapshotsMatch
             /\ video.pc' = "open"]_vars

\* both requests were refused: the warning of the empty selection is up, the
\* video request found only the snapshot s-64.png, which has no world name,
\* and no video thread has run
C34_Witness ==
    /\ ui.warning = NoSelection
    /\ video.message = "No Snapshots Found"
    /\ video.pc = "idle"
    /\ video.run = 0
    /\ \E f \in snapshot_files : f.dir = app.scene_name
    /\ NothingBegun


(***************************************************************************)
(* C36: currently_rendering is set from the start_render_queue that begins *)
(* a batch to the process_render_queue that finds the queue empty.  While  *)
(* a world is queued, a process has not been waited for, a monitor thread  *)
(* runs or the timer is pending, the flag is set; a step that clears it is *)
(* the timer firing on a queue whose jobs, if any, all fail in that call,  *)
(* and it logs the completion; while the flag is set no start is accepted: *)
(* the batch stays as enqueued and a warning that comes up is "A render is *)
(* already in progress".                                                   *)
(***************************************************************************)
InDrain ==
    \/ app.render_queue # << >>
    \/ DOMAIN procs # {}
    \/ monitors # {}
    \/ timers > 0

C36_DrainingUntilEmptyAdvance ==
    [][/\ InDrain => Draining
       /\ InDrain' => Draining'
       /\ (Draining /\ ~Draining') =>
             /\ timers' = timers - 1
             /\ DOMAIN procs = {}
             /\ monitors = {}
             /\ app.render_queue' = << >>
             /\ events'[Len(events')] = Ev("complete", NoText, 0)
             /\ Len(Launched') = Len(Launched)
       /\ Draining =>
             /\ enqueued' = enqueued
             /\ batch.scene_name' = batch.scene_name
             /\ batch.world_dir' = batch.world_dir
             /\ ui.warning' # ui.warning => ui.warning' = AlreadyRunning]_vars

\* the process of the last job has been waited for, the queue is empty and
\* the timer is pending: the flag is set and a start was refused
C36_Witness ==
    /\ Draining
    /\ app.render_queue = << >>
    /\ DOMAIN procs = {}
    /\ monitors = {}
    /\ timers = 1
    /\ Len(enqueued) = 2
    /\ Len(Launched) = 2
    /\ ui.warning = AlreadyRunning

(***************************************************************************)
(* C37: while a batch drains the worlds taken and the worlds still queued  *)
(* are, in number, the worlds enqueued; no world is taken twice and no     *)
(* world is launched twice; every world taken was skipped, failed to       *)
(* launch or was launched, one of the three; and when the batch is over    *)
(* the skipped, the failed launches and the launched, every process of     *)
(* which has ended and been waited for, are in number the worlds enqueued. *)
(***************************************************************************)
NoRepeat(seq) == \A i, j \in 1..Len(seq) : i # j => seq[i] # seq[j]

C37_TakenOnce ==
    /\ Draining => Len(Attempted) + Len(app.render_queue) = Len(enqueued)
    /\ NoRepeat(Attempted)
    /\ NoRepeat(Launched)
    /\ NoRepeat(Skipped \o LaunchFailed \o Launched)
    /\ Len(Skipped) + Len(LaunchFailed) + Len(Launched) = Len(Attempted)
    /\ (~Draining /\ events # << >>) =>
          /\ Len(Skipped) + Len(LaunchFailed) + Len(Launched) = Len(enqueued)
          /\ Range(Skipped) \cup Range(LaunchFailed) \cup Range(Launched) = Range(enqueued)
          /\ DOMAIN procs = {}
          /\ monitors = {}

\* a batch of three is over: one world was skipped, one failed to launch,
\* the process of the third has ended
C37_Witness ==
    /\ ~Draining
    /\ Len(enqueued) = 3
    /\ Len(Skipped) = 1
    /\ Len(LaunchFailed) = 1
    /\ Len(Launched) = 1
    /\ Completions = 1
    /\ DOMAIN procs = {}

(***************************************************************************)
(* C38: while the monitor thread of a job waits for its process or is at   *)
(* the rename step, current_world_name is the world of that job, the last  *)
(* one launched; a rename step that finds the snapshot <scene>-<spp>.png   *)
(* as the latest file and moves it leaves <scene>-<spp>-<world>.png with   *)
(* the world of that job in its place; and when the first batch of the     *)
(* run is over, every world of it was launched, every process wrote its    *)
(* snapshot of the scene of the batch and ended with return code 0 and     *)
(* every rename step moved a file, the snapshots directory holds one file  *)
(* per world enqueued and nothing else, the file of a world being          *)
(* <scene>-<spp>-<world>.png.                                              *)
(***************************************************************************)
TaggedNames(scene, world) ==
    {NewSnapshotName(scene, RenderedName(scene, spp), world) : spp \in SppTexts}

C38_RenameTagsOwnWorld ==
    [][/\ \A m \in monitors :
             m.pc \in {"wait", "rename"} =>
                /\ app.current_world_name = m.world
                /\ Launched # << >>
                /\ Launched[Len(Launched)] = m.world
       /\ \A m \in monitors :
             (/\ m.pc = "rename"
              /\ snapshot_files' # snapshot_files) =>
                LET latest == LatestSnapshot(SnapshotCandidates(snapshot_files,
                                                                app.scene_name))
                IN  \A spp \in SppTexts :
                       latest.name = RenderedName(app.scene_name, spp) =>
                          /\ latest \notin snapshot_files'
                          /\ [latest EXCEPT !.name =
                                 NewSnapshotName(app.scene_name, latest.name, m.world)]
                                \in snapshot_files'
       /\ (/\ ~Draining'
           /\ events' # << >>
           /\ jobs' = Len(enqueued')
           /\ Launched' = enqueued'
           /\ batch'.all_ok) =>
              /\ Cardinality(snapshot_files') = Len(enqueued')
              /\ \A w \in Range(enqueued') :
                    Cardinality({f \in snapshot_files' :
                                    /\ f.dir = batch'.scene_name
                                    /\ f.name \in TaggedNames(batch'.scene_name, w)}) = 1
      ]_vars

\* three worlds were rendered one after the other, each process wrote
\* s-64.png and ended with return code 0: the directory holds the three
\* snapshots, each with the world of its job
C38_Witness ==
    /\ ~Draining
    /\ Len(enqueued) = 3
    /\ Launched = enqueued
    /\ batch.all_ok
    /\ Cardinality(snapshot_files) = 3
    /\ \A w \in Range(enqueued) :
          \E f \in snapshot_files : f.name \in TaggedNames(SceneS, w)

=============================================================================
